---- MODULE Spec2Model ----
(***************************************************************************)
(* Sign-in / MFA orchestration of the guest manager's Auth page            *)
(* (src/src/pages/Auth.tsx, second component of the file), the MFA         *)
(* components (src/src/components/auth/MFASimpleVerification.tsx), the     *)
(* client-side rate limiter (src/unnamed/part_003), the session clearing of *)
(* SessionManager (src/unnamed/part_002), the sign-out and session expiry  *)
(* of useSecureAuth (src/src/hooks/useSecureAuth.tsx) and the redirect of  *)
(* ProtectedRoute (src/src/App.tsx).                                       *)
(*                                                                         *)
(* Specifications: Spec (one subject's sign-in and MFA flow),              *)
(* SpecRateLimit (the sign-in form with the clock running),                *)
(* SpecSharedClient (two subjects on one browser), SpecSession and         *)
(* SpecLongSession (SessionManager's timeouts and the monitoring of        *)
(* useSecureAuth) and SpecScore (SecurityMonitor, src/unnamed/part_000).   *)
(*                                                                         *)
(* Every `await` of a handler is a yield point: a handler is split into    *)
(* one action per segment between two awaits, and the provider's answer    *)
(* is the input of the segment that resumes.                               *)
(***************************************************************************)
EXTENDS Integers, Sequences, FiniteSets, TLC

\* ---------------------------------------------------------------- bounds
MaxTicks == 3          \* clock advances of a run
TicksPerWindow == 2    \* clock advances that make up one rate-limit window
MaxChallenges == 2     \* challenge ids the provider issues in a run
MaxInFlight == 2       \* verify calls that can be in flight together
MaxUnverified == 2     \* unverified factors a subject can accumulate
MaxFailures == 4       \* the count of rejected codes saturates here
PriorAttempts == 2     \* sign-in attempts already recorded in the window
MaxClock == 10         \* session clock of a short run, in warning windows
MaxHours == 9          \* session clock of a long run, in idle periods
MaxLongHours == 13     \* clock of a run of SessionManager alone, in idle periods
MaxExpiring == 2       \* handleSessionExpiry calls awaiting signOut together
MaxCount == 2          \* the counters of audit saturate here

\* Listener sets of setupActivityListeners a document can carry in a run.
MaxListeners == 2

\* Allowed attempts without a stored record that the history keeps.
MaxUnrecorded == 2

\* checkMFAStatus calls of ProtectedRoute awaiting listFactors together.
MaxChecks == 2

\* ------------------------------------------------------ program constants
SIGNIN_LIMIT == 5      \* checkRateLimit("signin", 5, 300000)
WINDOW_MS == 300000
OTP_LENGTH == 6        \* verificationCode.length !== 6
SESSION_WARNING_TIME == 600000   \* 10 * 60 * 1000
MAX_IDLE_TIME == 3600000         \* 60 * 60 * 1000
MAX_DURATION == 28800000         \* 8 * 60 * 60 * 1000, in isSessionValid
LONG_SESSION == 43200000         \* 12 * 60 * 60 * 1000, in detectSuspiciousActivity
RAPID_REQUESTS == 100            \* recentRequests > 100
LAST_MINUTE == 60000             \* getRecentActivityCount(60000)
MAX_ALERTS == 5                  \* [newAlert, ...prev.slice(0, 4)]

None == "none"
\* Two accounts that use the same browser one after the other.  Subject is
\* the one whose sign-in Spec follows; Other has no factor at the provider.
Subject == "alice"
Other == "bob"
Subjects == {Subject, Other}
InvalidEmail == "not-an-email"
Emails == Subjects \cup {InvalidEmail}
Passwords == {"correct", "wrong"}

\* What the user can type into the six OTP slots: nothing, the code the
\* authenticator shows, or six other digits.
NoCode == <<>>
GoodCode == <<1, 2, 3, 4, 5, 6>>
BadCode == <<0, 0, 0, 0, 0, 0>>
Codes == {NoCode, GoodCode, BadCode}

ChallengeIds == 1..MaxChallenges

VARIABLES
  now,               \* Date.now()
  storage,           \* how localStorage behaves inside checkRateLimit
  localStorage,      \* the browser's localStorage (keys the code uses)
  providerSession,   \* subject of the live provider session, or None
  mfaVerified,       \* provider accepted a verify for the live session
  factors,           \* provider: per subject, its TOTP factors
  issued,            \* provider: number of challenge ids issued so far
  page,              \* "auth": Auth page mounted; "app": navigated away
  currentView,       \* Auth state
  mfaStep,           \* Auth state
  authenticatedUser, \* Auth state
  authData,          \* Auth state (email, password)
  isLoading,         \* Auth state
  signIn,            \* handleSignIn in progress: pc and captured credentials
  authEvent,         \* SIGNED_IN event emitted, callback not yet run
  listenerPc,        \* onAuthStateChange callback position
  backPc,            \* handleBackToLogin position and captured authData
  mfa,               \* MFASimpleVerification state
  verifyCalls,       \* MFASimpleVerification: verify calls in flight
  optional,          \* MFAOptionalSetup state
  setup,             \* MFASetup state
  grantsOf,          \* history: navigations each challenge id's verify caused
  unrecorded,        \* history: allowed sign-in attempts that stored nothing
  sessionData,       \* SessionManager.sessionData, or None
  warningShown,      \* SessionManager.warningShown
  checkInterval,     \* SessionManager.checkInterval is armed
  hook,              \* useSecureAuth: sessionWarning, signOut calls pending
  monitor,           \* SecurityMonitor.checkStatus position and its info
  securityStatus,    \* SecurityMonitor state
  alerts,            \* SecurityMonitor: number of alerts kept
  audit,             \* history of the session instance (see NoAudit)
  document,          \* the page's document: listeners attached, hidden
  route              \* ProtectedRoute state and its checkMFAStatus calls

vars == <<now, storage, localStorage, providerSession, mfaVerified, factors,
          issued, page, currentView, mfaStep, authenticatedUser, authData,
          isLoading, signIn, authEvent, listenerPc, backPc, mfa, verifyCalls,
          optional, setup, grantsOf, unrecorded, sessionData, warningShown,
          checkInterval, hook, monitor, securityStatus, alerts, audit,
          document, route>>

\* groups of variables, for the UNCHANGED clauses
env == <<now, storage>>
provider == <<providerSession, mfaVerified, factors, issued>>
authState == <<page, currentView, mfaStep, authenticatedUser, authData,
               isLoading>>
listener == <<authEvent, listenerPc>>
children == <<mfa, verifyCalls, optional, setup>>
history == <<grantsOf, unrecorded>>
manager == <<sessionData, warningShown, checkInterval>>
security == <<securityStatus, alerts>>
session == <<manager, hook, monitor, security, audit, document, route>>


\* ------------------------------------------------------------ localStorage
\* localStorage.getItem(key) === "true"
IsTrue(value) == value = "true"

\* InputValidator.isValidEmail: the subjects' addresses match the pattern,
\* InvalidEmail does not.
IsValidEmail(email) == email \in Subjects

\* A filter that keeps every attempt, however old.
ValidAttemptsKeepAll(attempts, t, windowMs) == attempts

\* attempts.filter((time) => now - time < windowMs)
ValidAttempts(attempts, t, windowMs) ==
  SelectSeq(attempts, LAMBDA time : t - time < windowMs)

\* localStorage inside checkRateLimit: it works, getItem/JSON.parse throws,
\* or setItem throws (quota).
StorageModes == {"ok", "readThrows", "writeThrows"}

\* A limiter that compares with > where the code has >=.
CheckRateLimitOffByOne(stored, t, limit, windowMs, mode) ==
  LET validAttempts == ValidAttempts(stored, t, windowMs) IN
  IF mode = "readThrows" THEN [allowed |-> TRUE, stored |-> stored]
  ELSE IF Len(validAttempts) > limit
    THEN [allowed |-> FALSE, stored |-> stored]
  ELSE IF mode = "writeThrows" THEN [allowed |-> TRUE, stored |-> stored]
  ELSE [allowed |-> TRUE, stored |-> Append(validAttempts, t)]

\* A checkRateLimit whose catch block rejects the request.
CheckRateLimitFailClosed(stored, t, limit, windowMs, mode) ==
  LET validAttempts == ValidAttempts(stored, t, windowMs) IN
  IF mode = "readThrows" THEN [allowed |-> FALSE, stored |-> stored]
  ELSE IF Len(validAttempts) >= limit
    THEN [allowed |-> FALSE, stored |-> stored]
  ELSE IF mode = "writeThrows" THEN [allowed |-> FALSE, stored |-> stored]
  ELSE [allowed |-> TRUE, stored |-> Append(validAttempts, t)]

\* InputValidator.checkRateLimit(key, limit, windowMs) on the stored attempts
\* of the key, as [allowed, stored].  The catch allows the request; whatever
\* throws, nothing has been written.
CheckRateLimit(stored, t, limit, windowMs, mode) ==
  LET validAttempts == ValidAttempts(stored, t, windowMs) IN
  IF mode = "readThrows" THEN [allowed |-> TRUE, stored |-> stored]
  ELSE IF Len(validAttempts) >= limit
    THEN [allowed |-> FALSE, stored |-> stored]
  ELSE IF mode = "writeThrows" THEN [allowed |-> TRUE, stored |-> stored]
  ELSE [allowed |-> TRUE, stored |-> Append(validAttempts, t)]

\* History of checkRateLimit: the times, within the window, of the calls
\* that returned true in the catch block, without storing an attempt.
Unrecorded(log, t, windowMs, caught) ==
  LET recent == ValidAttempts(log, t, windowMs) IN
  IF caught /\ Len(recent) < MaxUnrecorded THEN Append(recent, t)
  ELSE recent

\* A session clearing that removes the MFA preferences as well.
ClearSessionDataAndPreferences(ls) ==
  [ls EXCEPT !.sessionToken = "null", !.mfa_enabled = "null",
             !.mfa_setup_prompted = "null"]

\* SessionManager.clearSessionData: localStorage.removeItem("sessionToken")
\* (sessionStorage.clear() touches no key of localStorage).
ClearSessionData(ls) == [ls EXCEPT !.sessionToken = "null"]

\* ------------------------------------------------------ component states
EmptyAuthData == [email |-> "", password |-> ""]

\* useState initial values of MFASimpleVerification.  failures is history:
\* the codes the provider has rejected since the component mounted.
MfaUnmounted ==
  [mounted |-> FALSE, loading |-> FALSE, verificationCode |-> NoCode,
   hasFactors |-> FALSE, currentChallenge |-> 0, isVerifying |-> FALSE,
   challengeInitialized |-> FALSE, initPc |-> "idle", failures |-> 0]

\* The mount effect runs initializeMFAChallenge, which sets loading and
\* awaits listFactors.
MfaMounted == [MfaUnmounted EXCEPT !.mounted = TRUE, !.loading = TRUE,
                                   !.initPc = "factors"]

\* useState initial values of MFAOptionalSetup; pending is the choice whose
\* 500 ms timeout has not fired yet.
OptionalInitial == [isLoading |-> FALSE, pending |-> "none"]

\* useState initial values of MFASetup.  pc is the handler in flight and
\* user the subject whose session its provider calls carry.
SetupUnmounted ==
  [mounted |-> FALSE, loading |-> FALSE, activeMethod |-> "totp",
   step |-> "setup", currentFactor |-> FALSE, verificationCode |-> NoCode,
   emailOTP |-> NoCode, isMFAEnabled |-> FALSE, loadPc |-> "idle",
   pc |-> "idle", user |-> None]

\* The mount effect runs loadMFAFactors.
SetupMounted(user) == [SetupUnmounted EXCEPT !.mounted = TRUE,
                                             !.loadPc = "factors",
                                             !.user = user]

\* MFASetup unmounts: a handler in flight keeps running (its provider calls
\* and its onComplete still happen), its setState calls are ignored.
SetupStale(s) ==
  IF s.pc = "idle" THEN SetupUnmounted
  ELSE [SetupUnmounted EXCEPT !.pc = s.pc, !.user = s.user,
                              !.verificationCode = s.verificationCode]

SignInIdle == [pc |-> "idle", email |-> "", password |-> ""]
BackIdle == [pc |-> "idle", email |-> ""]

\* MFASimpleVerification unmounts: the verify calls in flight keep running
\* (onSuccess is still called), their setState calls are ignored.  A call
\* the provider cannot accept has no effect left and is not followed.
MarkStale(calls) ==
  LET marked == [i \in 1..Len(calls) |-> [calls[i] EXCEPT !.stale = TRUE]]
  IN SelectSeq(marked, LAMBDA call : call.code = GoodCode)

\* The provider session a call was made under has ended or been replaced.
MarkOrphan(calls) ==
  [i \in 1..Len(calls) |-> [calls[i] EXCEPT !.orphan = TRUE]]

RemoveAt(seq, i) == SubSeq(seq, 1, i - 1) \o SubSeq(seq, i + 1, Len(seq))

Min(a, b) == IF a < b THEN a ELSE b

\* The Auth page's render conditions.
LoginFormShown == page = "auth" /\ currentView = "auth" /\ mfaStep = "login"
MfaViewShown == page = "auth" /\ currentView = "mfa"
OptionalShown == /\ page = "auth" /\ currentView = "auth"
                 /\ mfaStep = "mfa_optional" /\ authenticatedUser # None
SetupShown == /\ page = "auth" /\ currentView = "auth"
              /\ mfaStep = "mfa_setup" /\ authenticatedUser # None
VerifyStepShown == /\ page = "auth" /\ currentView = "auth"
                   /\ mfaStep = "mfa_verify" /\ authenticatedUser # None

\* MFASimpleVerification renders its form unless loading && !challengeInitialized.
FormShown(m) == m.mounted /\ ~(m.loading /\ ~m.challengeInitialized)

\* --------------------------------------------------------- SessionManager
\* sessionData === null.  From initializeSession until the data is cleared
\* isValid is true, so no live session equals this record.
NoSession == [lastActivity |-> 0, sessionStart |-> 0, isValid |-> FALSE]

\* useSecureAuth on mount: no warning shown, no handleSessionExpiry running,
\* the monitoring effect not yet run.  effectWarning is the sessionWarning
\* that the showSessionWarning of the effect's last run was created with.
HookInitial == [sessionWarning |-> FALSE, expiring |-> 0,
                monitoring |-> FALSE, effectWarning |-> FALSE]

\* A document just loaded: visible, no listener set of
\* setupActivityListeners attached.
DocumentInitial == [listeners |-> 0, hidden |-> FALSE]

\* useState initial values of ProtectedRoute and of the auth hook it uses:
\* the hook is loading without a user, mfaLoading is true.  effectDeps are
\* the dependencies (isAuthenticated, mfaEnabled) of the effect's last run,
\* checks the mfaEnabled each checkMFAStatus awaiting listFactors closed
\* over, and path is where the router is.
RouteUnmounted ==
  [mounted |-> FALSE, loading |-> TRUE, isAuthenticated |-> FALSE,
   mfaLoading |-> TRUE, hasMFA |-> FALSE, mfaEnabled |-> FALSE,
   effectDeps |-> <<>>, checks |-> <<>>, path |-> "protected"]

RouteMounted == [RouteUnmounted EXCEPT !.mounted = TRUE]

\* What ProtectedRoute returns for its state.
RouteView(r) ==
  IF ~r.mounted THEN "none"
  ELSE IF r.loading \/ r.mfaLoading THEN "spinner"
  ELSE IF ~r.isAuthenticated THEN "redirectAuth"
  ELSE IF r.path = "mfa-setup" THEN "setupPage"
  ELSE IF r.mfaEnabled /\ ~r.hasMFA THEN "redirectSetup"
  ELSE "children"

\* SecurityMonitor.checkStatus is not running.
MonitorIdle == [pc |-> "idle", isValid |-> TRUE, shouldShowWarning |-> FALSE]

\* useState<SecurityStatus>: an https origin, online.
SecurityStatusInitial ==
  [httpsEnabled |-> TRUE, sessionValid |-> TRUE, networkOnline |-> TRUE,
   securityHeaders |-> FALSE, suspiciousActivity |-> FALSE]

\* History of the session instance, from SIGNED_IN to the next SIGNED_IN:
\* when it signed in, the sessionExpired events dispatched and the forced
\* signOut calls made for it, and the getSessionInfo calls that returned
\* shouldShowWarning since the last updateActivity.
NoAudit == [signedInAt |-> -1, events |-> 0, signOuts |-> 0, warnings |-> 0]

\* The static fields of SessionManager as one value; cleared records that
\* clearSessionData has run (it removes "sessionToken" from localStorage).
ManagerOf(data, shown, armed) ==
  [sessionData |-> data, warningShown |-> shown, checkInterval |-> armed,
   cleared |-> FALSE]

\* initializeSession: lastActivity and sessionStart are both Date.now();
\* startSessionMonitoring arms the interval.
InitializeSession(m, t) ==
  [m EXCEPT !.sessionData = [lastActivity |-> t, sessionStart |-> t,
                             isValid |-> TRUE],
            !.checkInterval = TRUE]

\* stopSessionMonitoring
StopSessionMonitoring(m) == [m EXCEPT !.checkInterval = FALSE]

\* invalidateSession: isValid = false, stopSessionMonitoring,
\* clearSessionData (sessionData = null, warningShown = false).
InvalidateSession(m) ==
  [StopSessionMonitoring(m) EXCEPT !.sessionData = NoSession,
                                   !.warningShown = FALSE,
                                   !.cleared = TRUE]

\* clearSession: stopSessionMonitoring, clearSessionData.
ClearSession(m) == InvalidateSession(m)

\* timeSinceActivity > this.MAX_IDLE_TIME
IdleTimedOut(data, t) == t - data.lastActivity > MAX_IDLE_TIME

\* timeSinceStart > 8 * 60 * 60 * 1000
DurationExceeded(data, t) == t - data.sessionStart > MAX_DURATION

\* An isSessionValid without the maximum-duration test.
IsSessionValidIdleOnly(m, t) ==
  IF m.sessionData = NoSession
    THEN [result |-> FALSE, manager |-> m, reason |-> "none"]
    ELSE IF IdleTimedOut(m.sessionData, t)
      THEN [result |-> FALSE, manager |-> InvalidateSession(m),
            reason |-> "IDLE_TIMEOUT"]
      ELSE [result |-> m.sessionData.isValid, manager |-> m,
            reason |-> "none"]

\* isSessionValid: the value returned, the fields it leaves behind and the
\* reason it passes to invalidateSession, which logs it with the
\* SESSION_EXPIRED event.  The idle test comes first.
IsSessionValid(m, t) ==
  IF m.sessionData = NoSession
    THEN [result |-> FALSE, manager |-> m, reason |-> "none"]
    ELSE IF IdleTimedOut(m.sessionData, t)
      THEN [result |-> FALSE, manager |-> InvalidateSession(m),
            reason |-> "IDLE_TIMEOUT"]
      ELSE IF DurationExceeded(m.sessionData, t)
        THEN [result |-> FALSE, manager |-> InvalidateSession(m),
              reason |-> "MAX_DURATION"]
        ELSE [result |-> m.sessionData.isValid, manager |-> m,
              reason |-> "none"]

\* getRecentActivityCount: the mock implementation returns 0.
GetRecentActivityCount(timeWindow) == 0

\* detectSuspiciousActivity: false without session data; otherwise rapid
\* requests in the last minute, or a session that started more than twelve
\* hours ago.
DetectSuspiciousActivity(m, t) ==
  IF m.sessionData = NoSession THEN FALSE
  ELSE IF GetRecentActivityCount(LAST_MINUTE) > RAPID_REQUESTS THEN TRUE
  ELSE t - m.sessionData.sessionStart > LONG_SESSION

\* getTimeUntilExpiry: Math.max(0, MAX_IDLE_TIME - timeSinceActivity)
GetTimeUntilExpiry(m, t) ==
  IF m.sessionData = NoSession THEN 0
  ELSE IF MAX_IDLE_TIME - (t - m.sessionData.lastActivity) > 0
    THEN MAX_IDLE_TIME - (t - m.sessionData.lastActivity)
    ELSE 0

\* getSessionInfo: isSessionValid first, then the time left, then the
\* warning, which sets warningShown when it is reported.
GetSessionInfo(m, t) ==
  LET valid == IsSessionValid(m, t)
      timeUntilExpiry == GetTimeUntilExpiry(valid.manager, t)
      shouldShowWarning == /\ timeUntilExpiry <= SESSION_WARNING_TIME
                           /\ ~valid.manager.warningShown
  IN [isValid |-> valid.result,
      timeUntilExpiry |-> timeUntilExpiry,
      shouldShowWarning |-> shouldShowWarning,
      manager |-> IF shouldShowWarning
                    THEN [valid.manager EXCEPT !.warningShown = TRUE]
                    ELSE valid.manager]

\* updateActivity resetting lastActivity to the start of the session.
UpdateActivityToStart(m, t) ==
  IF m.sessionData = NoSession
    THEN m
    ELSE [m EXCEPT !.sessionData.lastActivity = m.sessionData.sessionStart,
                   !.warningShown = FALSE]

\* updateActivity creating a session when there is none.
UpdateActivityReviving(m, t) ==
  IF m.sessionData = NoSession
    THEN [m EXCEPT !.sessionData = [lastActivity |-> t, sessionStart |-> 0,
                                    isValid |-> TRUE]]
    ELSE [m EXCEPT !.sessionData.lastActivity = t, !.warningShown = FALSE]

\* updateActivity: with a session, lastActivity = Date.now() and
\* warningShown = false; without one, nothing.
UpdateActivityOf(m, t) ==
  IF m.sessionData = NoSession
    THEN m
    ELSE [m EXCEPT !.sessionData.lastActivity = t, !.warningShown = FALSE]

\* ------------------------------------------------------------------ Init
\* The Auth page has just mounted in a browser without a session, without
\* MFA preferences, and with PriorAttempts sign-in attempts recorded at
\* time 0.  The subject has a verified factor or none.
InitPage ==
  /\ now = 0
  /\ storage = "ok"
  /\ localStorage = [mfa_enabled |-> "null", mfa_setup_prompted |-> "null",
                     sessionToken |-> "null",
                     rate_limit_signin |-> [i \in 1..PriorAttempts |-> 0]]
  /\ providerSession = None
  /\ mfaVerified = FALSE
  /\ factors \in [Subjects -> [verified : BOOLEAN, unverified : {0}]]
  /\ ~factors[Other].verified
  /\ issued = 0
  /\ page = "auth"
  /\ currentView = "auth"
  /\ mfaStep = "login"
  /\ authenticatedUser = None
  /\ authData = EmptyAuthData
  /\ isLoading = FALSE
  /\ signIn = SignInIdle
  /\ authEvent = FALSE
  /\ listenerPc = "idle"
  /\ backPc = BackIdle
  /\ mfa = MfaUnmounted
  /\ verifyCalls = <<>>
  /\ optional = OptionalInitial
  /\ setup = SetupUnmounted
  /\ grantsOf = [c \in ChallengeIds |-> 0]
  /\ unrecorded = <<>>
  /\ sessionData = NoSession
  /\ warningShown = FALSE
  /\ checkInterval = FALSE
  /\ hook = HookInitial
  /\ monitor = MonitorIdle
  /\ alerts = 0
  /\ audit = NoAudit
  /\ document = DocumentInitial
  /\ route = RouteUnmounted

Init == InitPage /\ securityStatus = SecurityStatusInitial

\* navigate(redirectPath, {replace: true}): the Auth page and its children
\* unmount; calls and s are the verify calls and the MFASetup state the
\* navigation finds.
Navigate(calls, s) ==
  /\ page' = "app"
  /\ currentView' = "auth"
  /\ mfaStep' = "login"
  /\ authenticatedUser' = None
  /\ authData' = EmptyAuthData
  /\ isLoading' = FALSE
  /\ mfa' = MfaUnmounted
  /\ verifyCalls' = MarkStale(calls)
  /\ optional' = OptionalInitial
  /\ setup' = SetupStale(s)

\* What the Auth page renders for its state: the "mfa" view, the sign-in
\* form, one of the three MFA steps (each needs authenticatedUser), or
\* nothing.
Site(view, step, user) ==
  IF view = "mfa" THEN "mfa"
  ELSE IF step = "login" THEN "login"
  ELSE IF user = None THEN "blank"
  ELSE step

\* The Auth page re-renders with a new view, step and user.  If that
\* changes what it renders, the child shown so far unmounts and the new one
\* mounts with its initial state; calls and s are the verify calls and the
\* MFASetup state the re-render finds.
Render(view, step, user, calls, s) ==
  LET old == Site(currentView, mfaStep, authenticatedUser)
      new == Site(view, step, user) IN
  /\ currentView' = view
  /\ mfaStep' = step
  /\ authenticatedUser' = user
  /\ IF new = old
       THEN /\ verifyCalls' = calls
            /\ setup' = s
            /\ UNCHANGED <<mfa, optional>>
       ELSE /\ mfa' = IF new \in {"mfa", "mfa_verify"} THEN MfaMounted
                      ELSE MfaUnmounted
            /\ verifyCalls' = MarkStale(calls)
            /\ optional' = OptionalInitial
            /\ setup' = IF new = "mfa_setup" THEN SetupMounted(user)
                        ELSE SetupStale(s)

\* ------------------------------------------------------------ environment
Tick ==
  /\ now < MaxTicks * (WINDOW_MS \div TicksPerWindow)
  /\ now' = now + (WINDOW_MS \div TicksPerWindow)
  /\ UNCHANGED <<storage, localStorage, provider, authState, signIn,
                 listener, backPc, children, history, session>>

\* localStorage starts or stops throwing (disabled, quota, private mode).
StorageChange(mode) ==
  /\ mode \in StorageModes
  /\ storage' = mode
  /\ storage' # storage
  /\ UNCHANGED <<now, localStorage, provider, authState, signIn, listener,
                 backPc, children, history, session>>

\* ------------------------------------------------------------- LoginForm
\* The user fills the email and password inputs of the sign-in form.
EnterCredentials(email, password) ==
  /\ LoginFormShown
  /\ authData' = [email |-> email, password |-> password]
  /\ authData' # authData
  /\ UNCHANGED <<env, session,
                 localStorage, provider, page, currentView, mfaStep,
                 authenticatedUser, isLoading, signIn, listener, backPc,
                 children, history>>

\* handleSignIn up to its first await: rate limit, email validation, then
\* the signInWithPassword call.  The submit button is disabled while
\* isLoading and both inputs are required.
HandleSignIn ==
  LET rl == CheckRateLimit(localStorage.rate_limit_signin, now, SIGNIN_LIMIT,
                           WINDOW_MS, storage) IN
  /\ LoginFormShown
  /\ ~isLoading
  /\ signIn.pc = "idle"
  /\ authData.email # "" /\ authData.password # ""
  /\ localStorage' = [localStorage EXCEPT !.rate_limit_signin = rl.stored]
  /\ unrecorded' = Unrecorded(unrecorded, now, WINDOW_MS,
                              rl.allowed /\ storage # "ok")
  /\ IF rl.allowed /\ IsValidEmail(authData.email)
       THEN /\ isLoading' = TRUE
            /\ signIn' = [pc |-> "password", email |-> authData.email,
                          password |-> authData.password]
       ELSE /\ isLoading' = FALSE
            /\ UNCHANGED signIn
  /\ UNCHANGED <<env, session,
                 provider, page, currentView, mfaStep, authenticatedUser,
                 authData, listener, backPc, children, grantsOf>>

\* signInWithPassword answers.  The provider accepts only the subject's
\* password; on acceptance it opens a session and emits SIGNED_IN.  After
\* an error the handler shows a toast and resets isLoading, nothing else.
SignInPasswordResponse(outcome) ==
  /\ signIn.pc = "password"
  /\ outcome = "accept" => signIn.password = "correct"
  /\ IF outcome = "accept"
       THEN /\ providerSession' = signIn.email
            /\ mfaVerified' = FALSE
            /\ authEvent' = TRUE
            /\ IF page = "auth"
                 THEN Render(currentView, mfaStep, signIn.email,
                             MarkOrphan(verifyCalls), setup)
                 ELSE /\ verifyCalls' = MarkOrphan(verifyCalls)
                      /\ UNCHANGED <<currentView, mfaStep, authenticatedUser,
                                     mfa, optional, setup>>
            /\ signIn' = [signIn EXCEPT !.pc = "factors"]
            /\ UNCHANGED isLoading
       ELSE /\ isLoading' = FALSE
            /\ signIn' = SignInIdle
            /\ UNCHANGED <<providerSession, mfaVerified, authEvent,
                           currentView, mfaStep, authenticatedUser, children>>
  /\ UNCHANGED <<env, session, localStorage, factors, issued, page, authData,
                 listenerPc, backPc, history>>

\* A branch that does not look at the opt-in.
SignInBranchWithoutOptIn(hasVerifiedFactor, mfaPrompted, mfaEnabled) ==
  IF hasVerifiedFactor THEN "mfa"
  ELSE IF ~mfaPrompted THEN "mfa_optional"
  ELSE "navigate"

\* The branch handleSignIn takes once listFactors has answered: the verified
\* factors first, then the two localStorage preferences.
SignInBranch(hasVerifiedFactor, mfaPrompted, mfaEnabled) ==
  IF hasVerifiedFactor THEN "mfa"
  ELSE IF ~mfaPrompted THEN "mfa_optional"
  ELSE IF mfaEnabled THEN "mfa_setup"
  ELSE "navigate"

\* listFactors answers handleSignIn: "ok" with the subject's factors,
\* "error" as {data: null, error}, "throw" as a rejected promise.  Once the
\* Auth page has unmounted the setState calls are ignored.
SignInFactorsResponse(result) ==
  LET hasVerified == result = "ok" /\ factors[signIn.email].verified
      branch == SignInBranch(hasVerified,
                             IsTrue(localStorage.mfa_setup_prompted),
                             IsTrue(localStorage.mfa_enabled)) IN
  /\ signIn.pc = "factors"
  /\ signIn' = SignInIdle
  /\ IF page # "auth"
       THEN UNCHANGED <<authState, children>>
       ELSE CASE result = "throw" ->
                   /\ isLoading' = FALSE
                   /\ UNCHANGED <<page, currentView, mfaStep,
                                  authenticatedUser, authData, children>>
              [] result # "throw" /\ branch = "navigate" ->
                   Navigate(verifyCalls, setup)
              [] OTHER ->
                   /\ isLoading' = FALSE
                   /\ IF branch = "mfa"
                        THEN Render("mfa", mfaStep, authenticatedUser,
                                    verifyCalls, setup)
                        ELSE Render(currentView, branch, authenticatedUser,
                                    verifyCalls, setup)
                   /\ UNCHANGED <<page, authData>>
  /\ UNCHANGED <<env, session,
                 localStorage, provider, listener, backPc, history>>

\* ------------------------------------------ onAuthStateChange (Auth page)
\* The guard of the callback: SIGNED_IN with a session, outside the MFA flow.
ListenerGuard(view, step) == view # "mfa" /\ step = "login"

\* The callback runs for the SIGNED_IN event and, past its guard, awaits
\* listFactors.  The subscription ends when the Auth page unmounts.
AuthStateChange ==
  /\ authEvent
  /\ listenerPc = "idle"
  /\ authEvent' = FALSE
  /\ listenerPc' = IF /\ page = "auth"
                      /\ providerSession # None
                      /\ ListenerGuard(currentView, mfaStep)
                     THEN "factors" ELSE "idle"
  /\ UNCHANGED <<env, session,
                 localStorage, provider, authState, signIn, backPc,
                 children, history>>

\* hasVerifiedFactors of the callback: factorData?.all?.some(verified),
\* undefined (falsy) when listFactors answered {data: null, error}.
ListenerHasVerified(result) ==
  /\ result = "ok"
  /\ providerSession # None
  /\ factors[providerSession].verified

\* listFactors answers the callback; without a provider session it cannot
\* answer "ok".
ListenerFactorsResponse(result) ==
  /\ listenerPc = "factors"
  /\ result = "ok" => providerSession # None
  /\ listenerPc' = "idle"
  /\ IF result # "throw" /\ ~ListenerHasVerified(result)
       THEN Navigate(verifyCalls, setup)
       ELSE UNCHANGED <<authState, children>>
  /\ UNCHANGED <<env, session,
                 localStorage, provider, signIn, authEvent, backPc,
                 history>>


\* ------------------------------------------------- MFASimpleVerification
\* onBack of the "mfa" view: four setState calls, no provider call.
MfaViewOnBack ==
  /\ Render("auth", "login", None, verifyCalls, setup)
  /\ isLoading' = FALSE
  /\ UNCHANGED backPc

\* handleBackToLogin up to its await: three setState calls, then
\* supabase.auth.signOut().  The closure keeps the authData of the render
\* it was created in.  One signOut is followed at a time.
BackToLoginStart ==
  /\ Render(currentView, "login", None, verifyCalls, setup)
  /\ isLoading' = FALSE
  /\ backPc' = [pc |-> "signOut", email |-> authData.email]

\* initializeMFAChallenge resumes after listFactors.  An error: toast.  No
\* verified factor: toast and onBack(), which is the handler the render
\* site passed.  Otherwise mfa.challenge is called for the first verified
\* factor.
InitFactorsResponse(result) ==
  /\ mfa.mounted
  /\ mfa.initPc = "factors"
  /\ result = "ok" => providerSession # None
  /\ IF result = "ok" /\ ~factors[providerSession].verified
       THEN /\ IF currentView = "mfa" THEN MfaViewOnBack
                                      ELSE BackToLoginStart
            /\ UNCHANGED <<page, authData>>
       ELSE /\ mfa' = IF result = "ok"
                        THEN [mfa EXCEPT !.hasFactors = TRUE,
                                         !.initPc = "challenge"]
                        ELSE [mfa EXCEPT !.loading = FALSE,
                                         !.initPc = "idle"]
            /\ UNCHANGED <<authState, backPc, verifyCalls, optional, setup>>
  /\ UNCHANGED <<env, session,
                 localStorage, provider, signIn, listener, history>>

\* mfa.challenge answers: the provider issues a fresh challenge id.
InitChallengeResponse(result) ==
  /\ mfa.mounted
  /\ mfa.initPc = "challenge"
  /\ result = "ok" => issued < MaxChallenges
  /\ issued' = IF result = "ok" THEN issued + 1 ELSE issued
  /\ mfa' = IF result = "ok"
              THEN [mfa EXCEPT !.currentChallenge = issued + 1,
                               !.challengeInitialized = TRUE,
                               !.loading = FALSE, !.initPc = "idle"]
              ELSE [mfa EXCEPT !.loading = FALSE, !.initPc = "idle"]
  /\ UNCHANGED <<env, session,
                 localStorage, providerSession, mfaVerified, factors,
                 authState, signIn, listener, backPc, verifyCalls, optional,
                 setup, history>>

\* The user types into the OTP input.
EnterCode(code) ==
  /\ page = "auth"
  /\ FormShown(mfa)
  /\ mfa.verificationCode # code
  /\ mfa' = [mfa EXCEPT !.verificationCode = code]
  /\ UNCHANGED <<env, session,
                 localStorage, provider, authState, signIn, listener,
                 backPc, verifyCalls, optional, setup, history>>

\* A verifyTOTP without the guard.
VerifyNeverSuppressed(m) == FALSE

\* "Prevent multiple rapid API calls": if (loading || isVerifying) return;
\* the Verify button is disabled under the same condition.
VerifySuppressed(m) == m.loading \/ m.isVerifying

\* verifyTOTP up to its await: the code has six digits, a challenge exists
\* and no call is in progress; then mfa.verify is called.
VerifyTOTP ==
  /\ page = "auth"
  /\ FormShown(mfa)
  /\ Len(mfa.verificationCode) = OTP_LENGTH
  /\ mfa.currentChallenge # 0
  /\ ~VerifySuppressed(mfa)
  /\ Len(verifyCalls) < MaxInFlight
  /\ mfa' = [mfa EXCEPT !.loading = TRUE, !.isVerifying = TRUE]
  /\ verifyCalls' = Append(verifyCalls,
                           [challengeId |-> mfa.currentChallenge,
                            code |-> mfa.verificationCode,
                            stale |-> FALSE, orphan |-> FALSE])
  /\ UNCHANGED <<env, session,
                 localStorage, provider, authState, signIn, listener,
                 backPc, optional, setup, history>>

\* mfa.verify answers the i-th call in flight.  Success: toast and
\* onSuccess(), which navigates (both render sites pass a navigating
\* callback).  Failure ("reject": wrong code, "expired": the challenge
\* has expired; the catch block does not tell them apart): the code is
\* cleared.  finally: loading and isVerifying are reset.  A stale call's
\* setState calls are ignored.
VerifyResponse(i, outcome) ==
  LET call == verifyCalls[i]
      rest == RemoveAt(verifyCalls, i) IN
  /\ i \in 1..Len(verifyCalls)
  /\ outcome = "ok" => call.code = GoodCode
  /\ IF outcome = "ok"
       THEN /\ mfaVerified' = IF call.orphan THEN mfaVerified ELSE TRUE
            /\ grantsOf' = [grantsOf EXCEPT
                              ![call.challengeId] = Min(@ + 1, MaxInFlight)]
            /\ Navigate(rest, setup)
       ELSE /\ verifyCalls' = rest
            /\ mfa' = IF call.stale THEN mfa
                      ELSE [mfa EXCEPT
                              !.verificationCode = NoCode,
                              !.loading = FALSE,
                              !.isVerifying = FALSE,
                              !.failures = Min(@ + 1, MaxFailures)]
            /\ UNCHANGED <<mfaVerified, grantsOf, authState, optional, setup>>
  /\ UNCHANGED <<env, session, unrecorded,
                 localStorage, providerSession, factors, issued, signIn,
                 listener, backPc>>

\* handleRetry ("Generate New Challenge", disabled while loading or
\* verifying): the code and the challenge are dropped and the effect runs
\* initializeMFAChallenge again.
HandleRetry ==
  /\ page = "auth"
  /\ FormShown(mfa)
  /\ ~VerifySuppressed(mfa)
  /\ mfa' = [mfa EXCEPT !.verificationCode = NoCode, !.currentChallenge = 0,
                        !.challengeInitialized = FALSE, !.loading = TRUE,
                        !.initPc = "factors"]
  /\ UNCHANGED <<env, session,
                 localStorage, provider, authState, signIn, listener,
                 backPc, verifyCalls, optional, setup, history>>

\* "Back to Login" of MFASimpleVerification in the "mfa" view.
MfaBack ==
  /\ MfaViewShown
  /\ FormShown(mfa)
  /\ MfaViewOnBack
  /\ UNCHANGED <<env, session, localStorage, provider, page, authData, signIn,
                 listener, history>>

\* "Back to Login" of the mfa_setup step, or of MFASimpleVerification in
\* the mfa_verify step.
HandleBackToLogin ==
  /\ \/ SetupShown
     \/ VerifyStepShown /\ FormShown(mfa)
  /\ BackToLoginStart
  /\ UNCHANGED <<env, session, localStorage, provider, page, authData, signIn,
                 listener, history>>

\* signOut answers handleBackToLogin (its error is not looked at); then
\* setAuthData({...authData, password: ""}).
BackSignOutResponse(outcome) ==
  /\ backPc.pc = "signOut"
  /\ backPc' = BackIdle
  /\ IF outcome = "ok"
       THEN /\ providerSession' = None
            /\ mfaVerified' = FALSE
            /\ verifyCalls' = MarkOrphan(verifyCalls)
       ELSE UNCHANGED <<providerSession, mfaVerified, verifyCalls>>
  /\ authData' = IF page = "auth"
                   THEN [email |-> backPc.email, password |-> ""]
                   ELSE authData
  /\ UNCHANGED <<env, session,
                 localStorage, factors, issued, page, currentView,
                 mfaStep, authenticatedUser, isLoading, signIn, listener,
                 mfa, optional, setup, history>>

\* -------------------------------------------------------- MFAOptionalSetup
\* handleEnableMFA / handleSkipMFA: both preferences are written at once,
\* onComplete(enabled) follows after 500 ms.  The buttons are disabled
\* while isLoading.
OptionalChoice(choice) ==
  [mfa_enabled |-> IF choice = "enable" THEN "true" ELSE "false",
   mfa_setup_prompted |-> "true"]

HandleOptionalChoice(choice) ==
  /\ OptionalShown
  /\ ~optional.isLoading
  /\ localStorage' =
       [localStorage EXCEPT
          !.mfa_enabled = OptionalChoice(choice).mfa_enabled,
          !.mfa_setup_prompted = OptionalChoice(choice).mfa_setup_prompted]
  /\ optional' = [isLoading |-> TRUE, pending |-> choice]
  /\ UNCHANGED <<env, session,
                 provider, authState, signIn, listener, backPc, mfa,
                 verifyCalls, setup, history>>

\* The timeout fires: onComplete(enabled), that is
\* handleMFAOptionalComplete: setMfaStep("mfa_setup") or navigate.
OptionalTimeout ==
  /\ page = "auth"
  /\ optional.pending # "none"
  /\ IF optional.pending = "enable"
       THEN /\ Render(currentView, "mfa_setup", authenticatedUser,
                       verifyCalls, setup)
            /\ UNCHANGED <<page, authData, isLoading>>
       ELSE Navigate(verifyCalls, setup)
  /\ UNCHANGED <<env, session,
                 localStorage, provider, signIn, listener, backPc,
                 history>>


\* --------------------------------------------------------------- MFASetup
\* loadMFAFactors answers; isMFAEnabled = factors.some(verified).  With it
\* the component renders the "enabled" card and none of its controls.
LoadMFAFactorsResponse(result) ==
  /\ setup.mounted
  /\ setup.loadPc = "factors"
  /\ result = "ok" => providerSession # None
  /\ setup' = [setup EXCEPT
                 !.loadPc = "idle",
                 !.isMFAEnabled = IF result = "ok"
                                    THEN factors[providerSession].verified
                                    ELSE @]
  /\ UNCHANGED <<env, session,
                 localStorage, provider, authState, signIn, listener,
                 backPc, mfa, verifyCalls, optional, history>>

SetupControlsShown == SetupShown /\ setup.mounted /\ ~setup.isMFAEnabled

\* "Set Up Authenticator App" (disabled while loading): setupTOTP starts.
SetupTOTP ==
  /\ SetupControlsShown
  /\ setup.step = "setup"
  /\ ~setup.loading
  /\ setup.pc = "idle"
  /\ setup' = [setup EXCEPT !.loading = TRUE, !.pc = "setupTOTP"]
  /\ UNCHANGED <<env, session,
                 localStorage, provider, authState, signIn, listener,
                 backPc, mfa, verifyCalls, optional, history>>

\* A handleMFASetupComplete that navigates like handleMFAVerificationComplete.
HandleMFASetupCompleteNavigates == "navigate"

\* handleMFASetupComplete: setMfaStep("mfa_verify") and a toast asking for
\* the authentication code.
HandleMFASetupComplete == "mfa_verify"

\* A handler that returns to the first step and forgets the factor.
SetupReturnedToStart(s) ==
  IF s.mounted THEN [s EXCEPT !.loading = FALSE, !.pc = "idle",
                              !.step = "setup", !.currentFactor = FALSE]
  ELSE SetupUnmounted

\* The MFASetup state once its handler in flight has returned.
SetupReturned(s) ==
  IF s.mounted THEN [s EXCEPT !.loading = FALSE, !.pc = "idle"]
  ELSE SetupUnmounted

\* onComplete() of MFASetup as the Auth page passes it, at the end of a
\* handler.  Nothing changes once the Auth page has unmounted.
SetupComplete ==
  IF page # "auth"
    THEN /\ setup' = SetupReturned(setup)
         /\ UNCHANGED <<authState, mfa, optional, verifyCalls>>
  ELSE IF HandleMFASetupComplete = "navigate"
    THEN Navigate(verifyCalls, SetupReturned(setup))
  ELSE /\ Render(currentView, HandleMFASetupComplete, authenticatedUser,
                 verifyCalls, SetupReturned(setup))
       /\ UNCHANGED <<page, authData, isLoading>>

\* A setupTOTP whose clean-up takes every TOTP factor, whatever its status.
SetupTOTPFactorsAnyStatus(f, outcome, deleted) ==
  IF outcome \in {"noSession", "listError"} THEN f
  ELSE [f EXCEPT !.verified = FALSE,
                 !.unverified = (@ - deleted)
                                  + (IF outcome = "enrolled" THEN 1 ELSE 0)]

\* The subject's factors after setupTOTP: the early returns (no session,
\* listFactors error, a verified TOTP factor in the list) touch nothing;
\* otherwise the factors whose status is "unverified" are unenrolled
\* (deleted of them succeed) and enroll adds one factor when it succeeds.
SetupTOTPFactors(f, outcome, deleted) ==
  IF outcome \in {"noSession", "listError", "alreadyVerified"} THEN f
  ELSE [f EXCEPT !.unverified = (@ - deleted)
                                  + (IF outcome = "enrolled" THEN 1 ELSE 0)]

\* setupTOTP answers, its awaits taken together: getSession, listFactors,
\* unenroll of each unverified factor (deleted of them succeed), enroll.
SetupTOTPResponse(outcome, deleted) ==
  LET u == setup.user
      remaining == factors[u].unverified - deleted IN
  /\ setup.pc = "setupTOTP"
  /\ deleted \in 0..factors[u].unverified
  /\ outcome = "noSession" <=> providerSession = None
  /\ outcome = "alreadyVerified" => factors[u].verified
  /\ outcome \in {"enrolled", "enrollError"} => ~factors[u].verified
  /\ outcome = "enrolled" => remaining < MaxUnverified
  /\ outcome \in {"noSession", "listError", "alreadyVerified"} => deleted = 0
  /\ factors' = [factors EXCEPT ![u] = SetupTOTPFactors(@, outcome, deleted)]
  /\ IF outcome = "alreadyVerified"
       THEN SetupComplete
       ELSE /\ setup' =
                 IF setup.mounted /\ outcome = "enrolled"
                   THEN [SetupReturned(setup) EXCEPT !.currentFactor = TRUE,
                                                     !.step = "verify"]
                   ELSE SetupReturned(setup)
            /\ UNCHANGED <<authState, mfa, optional, verifyCalls>>
  /\ UNCHANGED <<env, session,
                 localStorage, providerSession, mfaVerified, issued,
                 signIn, listener, backPc, history>>

\* The user picks a tab of the setup step (the tabs are never disabled).
SelectMethod(method) ==
  /\ SetupControlsShown
  /\ setup.step = "setup"
  /\ setup.activeMethod # method
  /\ setup' = [setup EXCEPT !.activeMethod = method]
  /\ UNCHANGED <<env, session,
                 localStorage, provider, authState, signIn, listener,
                 backPc, mfa, verifyCalls, optional, history>>

\* setupEmailOTP ("Set Up Email Verification"): a toast that email OTP is
\* not supported, and the method switches back to TOTP.
SetupEmailOTP ==
  /\ SetupControlsShown
  /\ setup.step = "setup"
  /\ setup.activeMethod = "email"
  /\ ~setup.loading
  /\ setup' = [setup EXCEPT !.activeMethod = "totp"]
  /\ UNCHANGED <<env, session,
                 localStorage, provider, authState, signIn, listener,
                 backPc, mfa, verifyCalls, optional, history>>

\* The user types the code of the email form.
SetupEnterEmailOTP(code) ==
  /\ SetupControlsShown
  /\ setup.step = "verify"
  /\ setup.activeMethod = "email"
  /\ setup.emailOTP # code
  /\ setup' = [setup EXCEPT !.emailOTP = code]
  /\ UNCHANGED <<env, session,
                 localStorage, provider, authState, signIn, listener,
                 backPc, mfa, verifyCalls, optional, history>>

\* verifyEmailOTP starts (the button is disabled while loading or without
\* six digits): it waits one second.
VerifyEmailOTP ==
  /\ SetupControlsShown
  /\ setup.step = "verify"
  /\ setup.activeMethod = "email"
  /\ ~setup.loading
  /\ setup.pc = "idle"
  /\ Len(setup.emailOTP) = OTP_LENGTH
  /\ setup' = [setup EXCEPT !.loading = TRUE, !.pc = "verifyEmailOTP"]
  /\ UNCHANGED <<env, session,
                 localStorage, provider, authState, signIn, listener,
                 backPc, mfa, verifyCalls, optional, history>>

\* verifyEmailOTP after its wait: no provider call checks the code; toast
\* "MFA Setup Complete", loadMFAFactors, onComplete().
VerifyEmailOTPResponse ==
  /\ setup.pc = "verifyEmailOTP"
  /\ SetupComplete
  /\ UNCHANGED <<env, session,
                 localStorage, provider, signIn, listener, backPc,
                 history>>

\* The user types the setup code.
SetupEnterCode(code) ==
  /\ SetupControlsShown
  /\ setup.step = "verify"
  /\ setup.activeMethod = "totp"
  /\ setup.verificationCode # code
  /\ setup' = [setup EXCEPT !.verificationCode = code]
  /\ UNCHANGED <<env, session,
                 localStorage, provider, authState, signIn, listener,
                 backPc, mfa, verifyCalls, optional, history>>

\* "Verify & Enable" (disabled while loading or without six digits):
\* MFASetup.verifyTOTP starts.
SetupVerifyTOTP ==
  /\ SetupControlsShown
  /\ setup.step = "verify"
  /\ setup.activeMethod = "totp"
  /\ ~setup.loading
  /\ setup.pc = "idle"
  /\ setup.currentFactor
  /\ Len(setup.verificationCode) = OTP_LENGTH
  /\ setup' = [setup EXCEPT !.loading = TRUE, !.pc = "verifyTOTP"]
  /\ UNCHANGED <<env, session,
                 localStorage, provider, authState, signIn, listener,
                 backPc, mfa, verifyCalls, optional, history>>

\* MFASetup.verifyTOTP answers, its awaits taken together: mfa.challenge,
\* mfa.verify, loadMFAFactors.  Success verifies the enrolled factor and
\* calls onComplete; a failure shows a toast.
SetupVerifyResponse(outcome) ==
  LET u == setup.user IN
  /\ setup.pc = "verifyTOTP"
  /\ outcome # "challengeError" => issued < MaxChallenges
  /\ outcome = "ok" => /\ setup.verificationCode = GoodCode
                       /\ factors[u].unverified > 0
  /\ issued' = IF outcome = "challengeError" THEN issued ELSE issued + 1
  /\ IF outcome = "ok"
       THEN /\ factors' = [factors EXCEPT ![u].verified = TRUE,
                                          ![u].unverified = @ - 1]
            /\ mfaVerified' = IF setup.mounted /\ providerSession = u
                                THEN TRUE ELSE mfaVerified
            /\ SetupComplete
       ELSE /\ setup' = SetupReturned(setup)
            /\ UNCHANGED <<factors, mfaVerified, authState, mfa, optional,
                           verifyCalls>>
  /\ UNCHANGED <<env, session,
                 localStorage, providerSession, signIn, listener,
                 backPc, history>>

\* "Back to Setup" of the verify step.
BackToSetup ==
  /\ SetupControlsShown
  /\ setup.step = "verify"
  /\ setup' = [setup EXCEPT !.step = "setup"]
  /\ UNCHANGED <<env, session,
                 localStorage, provider, authState, signIn, listener,
                 backPc, mfa, verifyCalls, optional, history>>

\* ------------------------------------------------- post-login application
\* No handler of an earlier Auth page instance is still running.
NothingInFlight ==
  /\ signIn.pc = "idle"
  /\ ~authEvent
  /\ listenerPc = "idle"
  /\ backPc.pc = "idle"
  /\ verifyCalls = <<>>
  /\ setup.pc = "idle"

\* useSecureAuth.signOut: supabase signOut, then clearUserData, which ends
\* in SessionManager.clearSessionData; ProtectedRoute then redirects to
\* /auth, where a new Auth page mounts (its checkSession finds no session).
AppSignOut ==
  /\ page = "app"
  /\ providerSession # None
  /\ NothingInFlight
  /\ providerSession' = None
  /\ mfaVerified' = FALSE
  /\ localStorage' = ClearSessionData(localStorage)
  /\ sessionData' = NoSession
  /\ warningShown' = FALSE
  /\ checkInterval' = FALSE
  /\ hook' = HookInitial
  /\ page' = "auth"
  /\ UNCHANGED <<env, route, monitor, security, audit, document, factors,
                 issued,
                 currentView, mfaStep, authenticatedUser, authData,
                 isLoading, signIn, listener, backPc, children, history>>

\* handleSessionExpiry: signOut, clearUserData, window.location.href =
\* "/auth".  The page load ends every handler still running.
HandleSessionExpiry ==
  /\ page = "app"
  /\ providerSession # None
  /\ providerSession' = None
  /\ mfaVerified' = FALSE
  /\ localStorage' = ClearSessionData(localStorage)
  /\ page' = "auth"
  /\ signIn' = SignInIdle
  /\ authEvent' = FALSE
  /\ listenerPc' = "idle"
  /\ backPc' = BackIdle
  /\ verifyCalls' = <<>>
  /\ setup' = SetupUnmounted
  /\ sessionData' = NoSession
  /\ warningShown' = FALSE
  /\ checkInterval' = FALSE
  /\ hook' = HookInitial
  /\ monitor' = MonitorIdle
  /\ securityStatus' = SecurityStatusInitial
  /\ alerts' = 0
  /\ document' = DocumentInitial
  /\ UNCHANGED <<env, route, audit, factors, issued, currentView, mfaStep,
                 authenticatedUser, authData, isLoading, mfa, optional,
                 history>>

\* ProtectedRoute without an authenticated user: <Navigate to="/auth">.
ProtectedRedirect ==
  /\ page = "app"
  /\ providerSession = None
  /\ NothingInFlight
  /\ page' = "auth"
  /\ UNCHANGED <<env, session, localStorage, provider, currentView, mfaStep,
                 authenticatedUser, authData, isLoading, signIn, listener,
                 backPc, children, history>>

\* ------------------------------------------------- session monitoring
\* The auth flow is at rest: the session actions leave it alone.
flow == <<mfaVerified, factors, issued, currentView, mfaStep,
          authenticatedUser, authData, isLoading, signIn, listener, backPc,
          children, history>>

Manager == ManagerOf(sessionData, warningShown, checkInterval)

\* The fields of SessionManager after a call, and the localStorage it
\* leaves: clearSessionData removes "sessionToken".
SetManager(m) ==
  /\ sessionData' = m.sessionData
  /\ warningShown' = m.warningShown
  /\ checkInterval' = m.checkInterval
  /\ localStorage' = IF m.cleared THEN ClearSessionData(localStorage)
                     ELSE localStorage

Bump(n) == IF n < MaxCount THEN n + 1 ELSE n

\* Date.now() moves on by d, up to the horizon of the run.  The interval
\* of startSessionMonitoring (60 s) is shorter than any d: while it is
\* armed, it has fired on an expired session before the clock moves again.
Advance(d, horizon) ==
  /\ now + d <= horizon
  /\ ~(checkInterval /\ ~IsSessionValid(Manager, now).result)
  /\ now' = now + d
  /\ UNCHANGED <<storage, localStorage, providerSession, page, flow,
                 session>>

\* The onAuthStateChange callback of useSecureAuth with a session: on
\* SIGNED_IN (the sign-in flow has ended in the application) and on
\* TOKEN_REFRESHED alike it clears sessionWarning and calls
\* initializeSession.
OnAuthStateChange(event) ==
  /\ event \in {"SIGNED_IN", "TOKEN_REFRESHED"}
  /\ IF event = "SIGNED_IN"
       THEN /\ page = "auth"
            /\ providerSession = None
            /\ NothingInFlight
            /\ providerSession' = Subject
            /\ page' = "app"
            /\ audit' = [NoAudit EXCEPT !.signedInAt = now]
       ELSE /\ page = "app"
            /\ providerSession # None
            /\ UNCHANGED <<providerSession, page, audit>>
  /\ hook' = [hook EXCEPT !.sessionWarning = FALSE]
  /\ SetManager(InitializeSession(Manager, now))
  /\ UNCHANGED <<env, route, document, flow, monitor, security>>

\* A mousedown, keypress, scroll... listener: updateActivity.
UpdateActivity ==
  /\ page = "app"
  /\ sessionData # NoSession
  /\ sessionData' = [sessionData EXCEPT !.lastActivity = now]
  /\ warningShown' = FALSE
  /\ audit' = [audit EXCEPT !.warnings = 0]
  /\ UNCHANGED <<env, route, document, localStorage, providerSession, page,
                 flow,
                 checkInterval, hook, monitor, security>>

\* handleSessionExpiry up to its await: the toast, then signOut is called.
StartSessionExpiry ==
  /\ hook.expiring < MaxExpiring
  /\ hook' = [hook EXCEPT !.expiring = @ + 1]

\* setAlerts((prev) => [newAlert, ...prev.slice(0, 4)]), n times
AddAlerts(kept, n) ==
  IF kept + n < MAX_ALERTS THEN kept + n ELSE MAX_ALERTS

\* What detectSuspiciousActivity returns in the interval callback of
\* startSessionMonitoring: it runs after the validity test of the same
\* callback, on the fields that test has left.
SuspiciousAtTick ==
  LET valid == IsSessionValid(Manager, now) IN
  DetectSuspiciousActivity(IF valid.result THEN Manager
                           ELSE InvalidateSession(valid.manager), now)

\* The interval of startSessionMonitoring fires: an invalid session is
\* invalidated and "sessionExpired" is dispatched, which runs the hook's
\* handleSessionExpired listener inside dispatchEvent.  Then suspicious
\* activity is tested and "suspiciousActivity" dispatched, which runs the
\* listener of useSecurityMonitor (the one of useSecureAuth shows a toast).
SessionMonitorTick ==
  LET valid == IsSessionValid(Manager, now) IN
  /\ checkInterval
  /\ IF ~valid.result
       THEN /\ SetManager(InvalidateSession(valid.manager))
            /\ StartSessionExpiry
            /\ audit' = [audit EXCEPT !.events = Bump(@),
                                      !.signOuts = Bump(@)]
       ELSE UNCHANGED <<manager, localStorage, hook, audit>>
  /\ IF SuspiciousAtTick /\ page = "app"
       THEN /\ securityStatus' =
                 [securityStatus EXCEPT !.suspiciousActivity = TRUE]
            /\ alerts' = AddAlerts(alerts, 1)
       ELSE UNCHANGED security
  /\ UNCHANGED <<env, route, document, providerSession, page, flow, monitor>>

\* The sessionCheckInterval of useSecureAuth fires.
SessionCheckInterval ==
  LET sessionInfo == GetSessionInfo(Manager, now) IN
  /\ page = "app"
  /\ SetManager(sessionInfo.manager)
  /\ IF ~sessionInfo.isValid
       THEN StartSessionExpiry
       ELSE hook' = [hook EXCEPT
                       !.sessionWarning = @ \/ sessionInfo.shouldShowWarning]
  /\ audit' = [audit EXCEPT
                 !.signOuts = IF sessionInfo.isValid THEN @ ELSE Bump(@),
                 !.warnings = IF sessionInfo.shouldShowWarning
                                THEN Bump(@) ELSE @]
  /\ UNCHANGED <<env, route, document, providerSession, page, flow, monitor,
                 security>>

\* useSecureAuth renders with a user: sessionInfo is getSessionInfo().
HookRender ==
  LET sessionInfo == GetSessionInfo(Manager, now) IN
  /\ page = "app"
  /\ providerSession # None
  /\ SetManager(sessionInfo.manager)
  /\ audit' = [audit EXCEPT
                 !.warnings = IF sessionInfo.shouldShowWarning
                                THEN Bump(@) ELSE @]
  /\ UNCHANGED <<env, route, document, providerSession, page, flow, hook,
                 monitor,
                 security>>

\* SecurityMonitor.checkStatus up to its await: getSessionInfo, then the
\* HEAD request of checkSecurityHeaders is sent.
CheckStatus ==
  LET sessionInfo == GetSessionInfo(Manager, now) IN
  /\ page = "app"
  /\ monitor.pc = "idle"
  /\ SetManager(sessionInfo.manager)
  /\ monitor' = [pc |-> "headers", isValid |-> sessionInfo.isValid,
                 shouldShowWarning |-> sessionInfo.shouldShowWarning]
  /\ audit' = [audit EXCEPT
                 !.warnings = IF sessionInfo.shouldShowWarning
                                THEN Bump(@) ELSE @]
  /\ UNCHANGED <<env, route, document, providerSession, page, flow, hook,
                 security>>

\* checkStatus after checkSecurityHeaders: the status is set and an alert
\* is added for missing headers, for an invalid session and for a warning.
CheckStatusHeaders(securityHeaders) ==
  /\ monitor.pc = "headers"
  /\ securityStatus' = [securityStatus EXCEPT
                          !.sessionValid = monitor.isValid,
                          !.securityHeaders = securityHeaders]
  /\ alerts' = AddAlerts(alerts,
                 (IF ~securityHeaders /\ securityStatus.httpsEnabled
                    THEN 1 ELSE 0)
                 + (IF ~monitor.isValid THEN 1 ELSE 0)
                 + (IF monitor.shouldShowWarning THEN 1 ELSE 0))
  /\ monitor' = MonitorIdle
  /\ UNCHANGED <<env, route, document, localStorage, providerSession, page,
                 flow,
                 manager,
                 hook, audit>>

\* handleSessionExpiry after signOut has answered: clearUserData, which
\* ends in SessionManager.clearSession, and window.location.href = "/auth".
\* The page load ends every handler and resets every component.
SessionExpirySignOutResponse ==
  /\ hook.expiring > 0
  /\ providerSession' = None
  /\ mfaVerified' = FALSE
  /\ SetManager(ClearSession(Manager))
  /\ page' = "auth"
  /\ hook' = HookInitial
  /\ monitor' = MonitorIdle
  /\ securityStatus' = SecurityStatusInitial
  /\ alerts' = 0
  /\ signIn' = SignInIdle
  /\ authEvent' = FALSE
  /\ listenerPc' = "idle"
  /\ backPc' = BackIdle
  /\ verifyCalls' = <<>>
  /\ setup' = SetupUnmounted
  /\ document' = DocumentInitial
  /\ UNCHANGED <<env, route, audit, factors, issued, currentView, mfaStep,
                 authenticatedUser, authData, isLoading, mfa, optional,
                 history>>

\* What every session run can do besides letting time pass.
SessionStep ==
  \/ \E e \in {"SIGNED_IN", "TOKEN_REFRESHED"} : OnAuthStateChange(e)
  \/ UpdateActivity
  \/ SessionMonitorTick
  \/ SessionCheckInterval
  \/ HookRender
  \/ CheckStatus
  \/ CheckStatusHeaders(TRUE)
  \/ SessionExpirySignOutResponse
  \/ AppSignOut

\* A short run: the clock moves by the warning window or by the rest of
\* the idle period.
NextSession ==
  \/ \E d \in {SESSION_WARNING_TIME, MAX_IDLE_TIME - SESSION_WARNING_TIME} :
       Advance(d, MaxClock * SESSION_WARNING_TIME)
  \/ SessionStep

SpecSession == Init /\ [][NextSession]_vars

\* A long run of a session kept alive: the clock moves by whole idle
\* periods and only SessionManager's own interval evaluates the session.
NextLongSession ==
  \/ Advance(MAX_IDLE_TIME, MaxLongHours * MAX_IDLE_TIME)
  \/ \E e \in {"SIGNED_IN", "TOKEN_REFRESHED"} : OnAuthStateChange(e)
  \/ UpdateActivity
  \/ SessionMonitorTick
  \/ SessionExpirySignOutResponse

SpecLongSession == Init /\ [][NextLongSession]_vars

\* --------------------------------------------------- activity listeners
\* The monitoring effect of useSecureAuth runs after the hook has mounted:
\* setupActivityListeners adds one more set of listeners to the document.
MonitoringEffect ==
  /\ page = "app"
  /\ ~hook.monitoring
  /\ document.listeners < MaxListeners
  /\ hook' = [hook EXCEPT !.monitoring = TRUE,
                          !.effectWarning = hook.sessionWarning]
  /\ document' = [document EXCEPT !.listeners = @ + 1]
  /\ UNCHANGED <<env, route, localStorage, providerSession, page, flow,
                 manager,
                 monitor, security, audit>>

\* The monitoring effect runs again because showSessionWarning, one of its
\* dependencies, was recreated for a new sessionWarning: the cleanup of
\* the last run calls SessionManager.cleanup, which stops the periodic
\* check, and the new run calls setupActivityListeners.
MonitoringEffectRerun ==
  /\ page = "app"
  /\ hook.monitoring
  /\ hook.effectWarning # hook.sessionWarning
  /\ document.listeners < MaxListeners
  /\ hook' = [hook EXCEPT !.effectWarning = hook.sessionWarning]
  /\ document' = [document EXCEPT !.listeners = @ + 1]
  /\ SetManager(StopSessionMonitoring(Manager))
  /\ UNCHANGED <<env, route, providerSession, page, flow, monitor, security,
                 audit>>

\* What the listeners attached to the document do with one call of
\* updateActivity each; the calls are made at the same instant.
ListenersUpdateActivity ==
  /\ SetManager(UpdateActivityOf(Manager, now))
  /\ audit' = IF sessionData = NoSession THEN audit
              ELSE [audit EXCEPT !.warnings = 0]

\* A mousedown, mousemove, keypress, scroll, touchstart or click event
\* reaches the document: every listener attached for it runs.
ActivitySignal ==
  /\ document.listeners > 0
  /\ ListenersUpdateActivity
  /\ UNCHANGED <<env, route, document, providerSession, page, flow, hook,
                 monitor,
                 security>>

\* "visibilitychange": document.hidden flips and every listener attached
\* runs; it calls updateActivity when the page has become visible.
VisibilityChange ==
  /\ document' = [document EXCEPT !.hidden = ~@]
  /\ IF document.listeners > 0 /\ ~document'.hidden
       THEN ListenersUpdateActivity
       ELSE UNCHANGED <<manager, localStorage, audit>>
  /\ UNCHANGED <<env, route, providerSession, page, flow, hook, monitor,
                 security>>

\* A run of the page with its activity listeners: the clock moves by the
\* warning window or by a whole idle period.
NextActivity ==
  \/ \E d \in {SESSION_WARNING_TIME, MAX_IDLE_TIME} :
       Advance(d, MaxClock * SESSION_WARNING_TIME)
  \/ \E e \in {"SIGNED_IN", "TOKEN_REFRESHED"} : OnAuthStateChange(e)
  \/ MonitoringEffect
  \/ MonitoringEffectRerun
  \/ ActivitySignal
  \/ VisibilityChange
  \/ SessionMonitorTick
  \/ SessionCheckInterval
  \/ HookRender
  \/ SessionExpirySignOutResponse
  \/ AppSignOut

SpecActivity == Init /\ [][NextActivity]_vars

\* ------------------------------------------------------ SecurityMonitor
\* The "online" and "offline" listeners: the status follows
\* navigator.onLine and an alert is added.
HandleOnline ==
  /\ page = "app"
  /\ ~securityStatus.networkOnline
  /\ securityStatus' = [securityStatus EXCEPT !.networkOnline = TRUE]
  /\ alerts' = AddAlerts(alerts, 1)
  /\ UNCHANGED <<env, route, document, localStorage, providerSession, page,
                 flow,
                 manager,
                 hook, monitor, audit>>

HandleOffline ==
  /\ page = "app"
  /\ securityStatus.networkOnline
  /\ securityStatus' = [securityStatus EXCEPT !.networkOnline = FALSE]
  /\ alerts' = AddAlerts(alerts, 1)
  /\ UNCHANGED <<env, route, document, localStorage, providerSession, page,
                 flow,
                 manager,
                 hook, monitor, audit>>

\* The "suspiciousActivity" listener (the event is dispatched on rapid
\* clicking and by SessionManager's interval).
HandleSuspiciousActivity ==
  /\ page = "app"
  /\ securityStatus' = [securityStatus EXCEPT !.suspiciousActivity = TRUE]
  /\ alerts' = AddAlerts(alerts, 1)
  /\ UNCHANGED <<env, route, document, localStorage, providerSession, page,
                 flow,
                 manager,
                 hook, monitor, audit>>

\* getSecurityScore with > in place of >= in the level thresholds.
GetSecurityScoreStrict(status) ==
  LET score == (IF status.httpsEnabled THEN 25 ELSE 0)
               + (IF status.sessionValid THEN 25 ELSE 0)
               + (IF status.networkOnline THEN 15 ELSE 0)
               + (IF status.securityHeaders THEN 20 ELSE 0)
               + (IF ~status.suspiciousActivity THEN 15 ELSE 0)
  IN [score |-> score,
      level |-> IF score > 80 THEN "Excellent"
                ELSE IF score > 60 THEN "Good"
                ELSE IF score > 40 THEN "Fair"
                ELSE "Poor"]

\* getSecurityScore: the points of the five checks and the level.
GetSecurityScore(status) ==
  LET score == (IF status.httpsEnabled THEN 25 ELSE 0)
               + (IF status.sessionValid THEN 25 ELSE 0)
               + (IF status.networkOnline THEN 15 ELSE 0)
               + (IF status.securityHeaders THEN 20 ELSE 0)
               + (IF ~status.suspiciousActivity THEN 15 ELSE 0)
  IN [score |-> score,
      level |-> IF score >= 80 THEN "Excellent"
                ELSE IF score >= 60 THEN "Good"
                ELSE IF score >= 40 THEN "Fair"
                ELSE "Poor"]

\* The monitor mounts on an http or https origin, online or offline.
InitScore ==
  /\ InitPage
  /\ securityStatus \in
       {[SecurityStatusInitial EXCEPT !.httpsEnabled = https,
                                      !.networkOnline = online] :
          https \in BOOLEAN, online \in BOOLEAN}

\* The SecurityMonitor over a session that signs in and can expire.
NextScore ==
  \/ OnAuthStateChange("SIGNED_IN")
  \/ Advance(MAX_IDLE_TIME, MaxHours * MAX_IDLE_TIME)
  \/ SessionMonitorTick
  \/ SessionExpirySignOutResponse
  \/ CheckStatus
  \/ \E h \in BOOLEAN : CheckStatusHeaders(h)
  \/ HandleOnline
  \/ HandleOffline
  \/ HandleSuspiciousActivity

SpecScore == InitScore /\ [][NextScore]_vars

\* What a listFactors call can do: answer with the factors, answer
\* {data: null, error}, or reject.
Responses == {"ok", "error", "throw"}

\* ------------------------------------------------------- ProtectedRoute
\* Everything but the route's own state and the router's page.
offRoute == <<env, localStorage, provider, currentView, mfaStep,
              authenticatedUser, authData, isLoading, signIn, listener,
              backPc, children, history, manager, hook, monitor, security,
              audit, document>>

\* The auth hook has read the stored session (getSession answers after
\* the effects of the mount have run): loading ends and isAuthenticated
\* says whether there is a user.
RouteHookLoaded ==
  /\ route.mounted
  /\ route.loading
  /\ route.effectDeps # <<>>
  /\ route' = [route EXCEPT !.loading = FALSE,
                            !.isAuthenticated = providerSession # None]
  /\ UNCHANGED <<offRoute, page>>

\* The effect of ProtectedRoute runs, after the mount and after a render
\* with a new isAuthenticated or mfaEnabled.  Authenticated: checkMFAStatus
\* reads the preference and sets mfaEnabled; with the preference set it
\* awaits listFactors, otherwise it sets hasMFA and ends the loading.  Not
\* authenticated: the loading ends.
RouteEffect ==
  LET deps == <<route.isAuthenticated, route.mfaEnabled>>
      mfaEnabledPref == IsTrue(localStorage.mfa_enabled) IN
  /\ route.mounted
  /\ route.effectDeps # deps
  /\ IF ~route.isAuthenticated
       THEN route' = [route EXCEPT !.effectDeps = deps,
                                   !.mfaLoading = FALSE]
       ELSE IF mfaEnabledPref
         THEN /\ Len(route.checks) < MaxChecks
              /\ route' = [route EXCEPT
                             !.effectDeps = deps,
                             !.mfaEnabled = TRUE,
                             !.checks = Append(@, route.mfaEnabled)]
         ELSE route' = [route EXCEPT !.effectDeps = deps,
                                     !.mfaEnabled = FALSE,
                                     !.hasMFA = TRUE,
                                     !.mfaLoading = FALSE]
  /\ UNCHANGED <<offRoute, page>>

\* listFactors answers the i-th checkMFAStatus in flight.  With the
\* factors: hasMFA says whether one is verified.  With an error: hasMFA is
\* false.  By throwing: the catch sets hasMFA to !mfaEnabled, the
\* mfaEnabled of the render whose effect started the call.  Then
\* setMfaLoading(false).
RouteFactorsResponse(i, result) ==
  /\ route.mounted
  /\ i \in 1..Len(route.checks)
  /\ result = "ok" => providerSession # None
  /\ route' = [route EXCEPT
                 !.checks = RemoveAt(@, i),
                 !.mfaLoading = FALSE,
                 !.hasMFA = IF result = "ok"
                              THEN factors[providerSession].verified
                            ELSE IF result = "error" THEN FALSE
                            ELSE ~route.checks[i]]
  /\ UNCHANGED <<offRoute, page>>

\* The provider session ends (it expires, or another tab signs out) and
\* the hook's onAuthStateChange callback receives SIGNED_OUT: no user.
RouteSignedOut ==
  /\ route.mounted
  /\ ~route.loading
  /\ providerSession # None
  /\ providerSession' = None
  /\ route' = [route EXCEPT !.isAuthenticated = FALSE]
  /\ UNCHANGED <<env, localStorage, mfaVerified, factors, issued, page,
                 currentView, mfaStep, authenticatedUser, authData,
                 isLoading, signIn, listener, backPc, children, history,
                 manager, hook, monitor, security, audit, document>>

\* <Navigate>: to /auth without a user, where the Auth page mounts and
\* the route unmounts, or to /mfa-setup?mandatory=true.
RouteRedirect ==
  /\ RouteView(route) \in {"redirectAuth", "redirectSetup"}
  /\ IF RouteView(route) = "redirectAuth"
       THEN /\ page' = "auth"
            /\ route' = RouteUnmounted
       ELSE /\ route' = [route EXCEPT !.path = "mfa-setup"]
            /\ UNCHANGED page
  /\ UNCHANGED offRoute

\* The browser loads a protected path: the provider session of the
\* subject may be stored, the MFA preference is whatever localStorage
\* holds, and the subject has a verified factor or none.
InitRoute ==
  /\ now = 0
  /\ storage = "ok"
  /\ \E pref \in {"true", "false", "null"} :
       localStorage = [mfa_enabled |-> pref, mfa_setup_prompted |-> pref,
                       sessionToken |-> "null",
                       rate_limit_signin |-> <<>>]
  /\ providerSession \in {Subject, None}
  /\ mfaVerified = FALSE
  /\ factors \in [Subjects -> [verified : BOOLEAN, unverified : {0}]]
  /\ ~factors[Other].verified
  /\ issued = 0
  /\ page = "app"
  /\ currentView = "auth"
  /\ mfaStep = "login"
  /\ authenticatedUser = None
  /\ authData = EmptyAuthData
  /\ isLoading = FALSE
  /\ signIn = SignInIdle
  /\ authEvent = FALSE
  /\ listenerPc = "idle"
  /\ backPc = BackIdle
  /\ mfa = MfaUnmounted
  /\ verifyCalls = <<>>
  /\ optional = OptionalInitial
  /\ setup = SetupUnmounted
  /\ grantsOf = [c \in ChallengeIds |-> 0]
  /\ unrecorded = <<>>
  /\ sessionData = NoSession
  /\ warningShown = FALSE
  /\ checkInterval = FALSE
  /\ hook = HookInitial
  /\ monitor = MonitorIdle
  /\ securityStatus = SecurityStatusInitial
  /\ alerts = 0
  /\ audit = NoAudit
  /\ document = DocumentInitial
  /\ route = RouteMounted

NextRoute ==
  \/ RouteHookLoaded
  \/ RouteEffect
  \/ \E i \in 1..MaxChecks, r \in Responses : RouteFactorsResponse(i, r)
  \/ RouteSignedOut
  \/ RouteRedirect

SpecRoute == InitRoute /\ [][NextRoute]_vars

\* ------------------------------------------------------------------ Spec
\* The sign-in and MFA flow of one browser session.  The user enters the
\* subject's credentials; the clock stands still and localStorage works
\* (NextRateLimit has the clock and the failures).

Next ==
  \/ EnterCredentials(Subject, "correct")
  \/ HandleSignIn
  \/ \E o \in {"accept", "reject"} : SignInPasswordResponse(o)
  \/ \E r \in Responses : SignInFactorsResponse(r)
  \/ AuthStateChange
  \/ \E r \in Responses : ListenerFactorsResponse(r)
  \/ \E r \in {"ok", "error"} : InitFactorsResponse(r)
  \/ \E r \in {"ok", "error"} : InitChallengeResponse(r)
  \/ \E c \in Codes : EnterCode(c)
  \/ VerifyTOTP
  \/ \E i \in 1..MaxInFlight, o \in {"ok", "reject", "expired"} :
       VerifyResponse(i, o)
  \/ HandleRetry
  \/ MfaBack
  \/ HandleBackToLogin
  \/ \E o \in {"ok", "error"} : BackSignOutResponse(o)
  \/ \E c \in {"enable", "skip"} : HandleOptionalChoice(c)
  \/ OptionalTimeout
  \/ \E r \in {"ok", "error"} : LoadMFAFactorsResponse(r)
  \/ SetupTOTP
  \/ \E o \in {"noSession", "listError", "alreadyVerified", "enrolled",
               "enrollError"}, d \in 0..MaxUnverified :
       SetupTOTPResponse(o, d)
  \/ \E m \in {"totp", "email"} : SelectMethod(m)
  \/ SetupEmailOTP
  \/ \E c \in {BadCode} : SetupEnterEmailOTP(c)
  \/ VerifyEmailOTP
  \/ VerifyEmailOTPResponse
  \/ \E c \in Codes : SetupEnterCode(c)
  \/ SetupVerifyTOTP
  \/ \E o \in {"challengeError", "reject", "ok"} : SetupVerifyResponse(o)
  \/ BackToSetup
  \/ AppSignOut
  \/ HandleSessionExpiry
  \/ ProtectedRedirect

Spec == Init /\ [][Next]_vars

\* The sign-in form alone, with the clock running and localStorage failing:
\* the submissions the provider does not accept.
NextRateLimit ==
  \/ Tick
  \/ \E m \in StorageModes : StorageChange(m)
  \/ \E e \in Emails, p \in Passwords : EnterCredentials(e, p)
  \/ HandleSignIn
  \/ \E o \in {"unconfirmed", "reject"} : SignInPasswordResponse(o)

SpecRateLimit == Init /\ [][NextRateLimit]_vars

\* One browser used by both subjects: the sign-in form, the optional
\* prompt and the sign-out of the application, which keep or clear what
\* localStorage holds between two sign-ins.
NextSharedClient ==
  \/ \E e \in Subjects : EnterCredentials(e, "correct")
  \/ HandleSignIn
  \/ SignInPasswordResponse("accept")
  \/ \E r \in Responses : SignInFactorsResponse(r)
  \/ AuthStateChange
  \/ \E r \in Responses : ListenerFactorsResponse(r)
  \/ \E c \in {"enable", "skip"} : HandleOptionalChoice(c)
  \/ OptionalTimeout
  \/ \E r \in {"ok", "error"} : LoadMFAFactorsResponse(r)
  \/ HandleBackToLogin
  \/ \E o \in {"ok", "error"} : BackSignOutResponse(o)
  \/ AppSignOut
  \/ ProtectedRedirect

SpecSharedClient == Init /\ [][NextSharedClient]_vars

\* ---------------------------------------------------------------- claims
\* Granted: the post-login application is shown under a live session.
Granted == page = "app" /\ providerSession # None

\* C1: for a subject with a verified factor, Granted is reached only after
\* a verify call of the attempt has succeeded, also when listFactors or the
\* challenge creation fails.
C1_GrantOnlyAfterVerify ==
  (Granted /\ factors[providerSession].verified) => mfaVerified

\* C2: every Back out of the challenge or the setup step calls signOut at
\* the provider (and clears the password once it has answered).
C2_BackSignsOut ==
  [][(MfaBack \/ HandleBackToLogin) => backPc'.pc = "signOut"]_vars

\* C3: a verify call abandoned by Back does not navigate to the application
\* when its success arrives later.
C3_LateSuccessDoesNotGrant ==
  [][\A i \in 1..MaxInFlight :
       (/\ i <= Len(verifyCalls)
        /\ verifyCalls[i].stale
        /\ page = "auth"
        /\ VerifyResponse(i, "ok")) => page' = "auth"]_vars

\* C4: a subject without a verified factor that has not been prompted is
\* not Granted before the enable/skip choice has been made.
C4_PromptBeforeGrant ==
  (Granted /\ ~factors[providerSession].verified)
    => IsTrue(localStorage.mfa_setup_prompted)

\* PasswordChecking with the password accepted: the sign-in form is still
\* up, the user has been stored and handleSignIn awaits listFactors.
EnrollmentAwaited ==
  /\ LoginFormShown
  /\ signIn.pc = "factors"
  /\ authenticatedUser = signIn.email

\* C5: once the password is accepted and listFactors has answered, the next
\* state is the function of (hasVerifiedFactor, promptedOnce, optedIn), for
\* every combination of the three: challenge if a verified factor exists,
\* else optional prompt if not prompted, else mandatory setup if opted in,
\* else Granted.  (A page that has left PasswordChecking before handleSignIn
\* resumes, as in C4, is not in the case.)
C5_NextStateByEnrollment ==
  [][/\ \A h, p, e \in BOOLEAN :
          SignInBranch(h, p, e) = IF h THEN "mfa"
                                  ELSE IF ~p THEN "mfa_optional"
                                  ELSE IF e THEN "mfa_setup"
                                  ELSE "navigate"
     /\ (EnrollmentAwaited /\ SignInFactorsResponse("ok")) =>
          IF factors[signIn.email].verified
            THEN MfaViewShown' /\ mfa' = MfaMounted
          ELSE IF ~IsTrue(localStorage.mfa_setup_prompted)
            THEN OptionalShown' /\ optional' = OptionalInitial
          ELSE IF IsTrue(localStorage.mfa_enabled)
            THEN SetupShown' /\ setup' = SetupMounted(signIn.email)
          ELSE page' = "app"]_vars

\* The challenge view right after the sign-in handler has switched to it.
C5_Witness ==
  /\ MfaViewShown
  /\ mfa.initPc = "factors"
  /\ signIn.pc = "idle"
  /\ IsTrue(localStorage.mfa_setup_prompted)

\* The attempts of the sign-in key that count at the current time.
CountedAttempts ==
  Len(ValidAttempts(localStorage.rate_limit_signin, now, WINDOW_MS))

\* A submission that is rejected locally: no provider call, still LoginForm.
RejectedLocally ==
  /\ signIn' = SignInIdle
  /\ ~isLoading'
  /\ LoginFormShown'

\* C6 as stated: with 3 attempts counted, the 4th submission is rejected
\* locally.
C6_FourthRejected ==
  [][(HandleSignIn /\ storage # "readThrows" /\ CountedAttempts >= 3)
       => RejectedLocally]_vars

\* C6: with 5 attempts counted in the 5-minute window and a readable attempt
\* store, the next submission is rejected locally: no provider call is made,
\* the page stays in LoginForm and the submission is not recorded; below 5
\* a submission with a valid email goes out to the provider.
C6_SixthRejected ==
  [][HandleSignIn /\ storage # "readThrows" =>
       /\ CountedAttempts >= 5 =>
            RejectedLocally /\ localStorage' = localStorage
       /\ (CountedAttempts < 5 /\ IsValidEmail(authData.email))
            => signIn'.pc = "password"]_vars

\* Five attempts are counted and a further submission is ready.
C6_Witness ==
  /\ CountedAttempts = 5
  /\ now > 0
  /\ storage = "ok"
  /\ ENABLED HandleSignIn

\* C7: after 3 rejected codes in the challenge, a further submission does
\* not reach the provider.
C7_FourthCodeNotSent ==
  [][~(mfa.failures >= 3 /\ VerifyTOTP)]_vars

\* C8: no two verify calls for one challenge id are in flight together, and
\* no challenge id causes more than one navigation to the application.
C8_NoDoubleGrant ==
  /\ \A i, j \in 1..Len(verifyCalls) :
       i # j => verifyCalls[i].challengeId # verifyCalls[j].challengeId
  /\ \A c \in ChallengeIds : grantsOf[c] <= 1

\* A call is in flight while the form still holds the six digits.
C8_Witness ==
  /\ page = "auth"
  /\ FormShown(mfa)
  /\ mfa.isVerifying
  /\ Len(mfa.verificationCode) = OTP_LENGTH
  /\ \E i \in 1..Len(verifyCalls) :
       /\ ~verifyCalls[i].stale
       /\ verifyCalls[i].challengeId = mfa.currentChallenge

\* The setup code of the mounted MFASetup is accepted.
SetupCodeAccepted ==
  /\ page = "auth"
  /\ setup.mounted
  /\ SetupVerifyResponse("ok")

C10_PromptedOnce ==
  [][/\ \A c \in {"enable", "skip"} :
          HandleOptionalChoice(c) => IsTrue(localStorage'.mfa_setup_prompted)
     /\ IsTrue(localStorage.mfa_setup_prompted) =>
          /\ IsTrue(localStorage'.mfa_setup_prompted)
          /\ OptionalShown' => OptionalShown]_vars

\* A later login of the subject that skipped: the sign-in handler is about
\* to branch.
C10_Witness ==
  /\ IsTrue(localStorage.mfa_setup_prompted)
  /\ localStorage.mfa_enabled = "false"
  /\ optional.pending = "none"
  /\ page = "auth"
  /\ signIn.pc = "factors"

\* The branch a sign-in of subject a would take on this browser now.
BranchFor(a) ==
  SignInBranch(factors[a].verified,
               IsTrue(localStorage.mfa_setup_prompted),
               IsTrue(localStorage.mfa_enabled))

\* C11: the MFA preference is a record per subject: the enable/skip choice
\* one subject makes leaves the branch of every other subject's sign-in on
\* the same browser as it was.
C11_ChoiceIsPerSubject ==
  [][\A c \in {"enable", "skip"} :
       HandleOptionalChoice(c) =>
         \A a \in Subjects \ {authenticatedUser} :
           BranchFor(a)' = BranchFor(a)]_vars

\* C12: a session evaluates as expired exactly when it has been idle for
\* 60 minutes or more, or started 8 hours ago or more, the exact boundary
\* included.
C12_ExpiredAtThreshold ==
  sessionData # NoSession =>
    (~IsSessionValid(Manager, now).result
       <=> \/ now - sessionData.lastActivity >= MAX_IDLE_TIME
           \/ now - sessionData.sessionStart >= MAX_DURATION)

\* C13: a getSessionInfo call reports the warning only for a session that
\* is present and not expired with at most 10 minutes left, and it does
\* report it for such a session that has not been warned about yet.
C13_WarningOnlyForLiveSession ==
  [][CheckStatus =>
       /\ monitor'.shouldShowWarning =>
            /\ sessionData # NoSession
            /\ monitor'.isValid
            /\ GetTimeUntilExpiry(Manager, now) <= SESSION_WARNING_TIME
       /\ (/\ monitor'.isValid
           /\ GetTimeUntilExpiry(Manager, now) <= SESSION_WARNING_TIME
           /\ ~warningShown) => monitor'.shouldShowWarning]_vars

\* C14: whichever caller first evaluates a session idle beyond the
\* threshold, the session data is cleared and the session-expired event
\* has been dispatched exactly once for that session instance.
C14_ExpiredEventOnce ==
  [][(/\ sessionData # NoSession
      /\ IdleTimedOut(sessionData, now)
      /\ \/ SessionMonitorTick
         \/ SessionCheckInterval
         \/ CheckStatus
         \/ HookRender)
       => /\ sessionData' = NoSession
          /\ audit'.events = 1]_vars

\* C15: the forced sign-out is performed at most once for a session
\* instance, also when the sessionExpired handler and the hook's poll both
\* see the expiry and on the polls that follow.
C15_ForcedSignOutOnce == audit.signOuts <= 1

\* C16: no session is valid more than 8 hours after its sign-in, whatever
\* activity and TOKEN_REFRESHED events occur in between (the session has
\* not been found expired since the sign-in).
C16_AbsoluteLimitFromSignIn ==
  (/\ sessionData # NoSession
   /\ IsSessionValid(Manager, now).result
   /\ audit.events = 0
   /\ audit.signOuts = 0)
    => now - audit.signedInAt <= MAX_DURATION

\* C17: between two updateActivity calls of a session instance at most one
\* getSessionInfo call returns shouldShowWarning = true, whoever calls.
C17_OneWarningPerCycle == audit.warnings <= 1

\* C18: the score is 25 for HTTPS, 25 for a valid session, 15 for being
\* online, 20 for the security headers and 15 for no suspicious activity,
\* within 0..100; the level is Excellent from 80, Good in 60..79, Fair in
\* 40..59 and Poor below.
C18_ScoreAndLevel ==
  LET Points(check, points) == IF check THEN points ELSE 0
      result == GetSecurityScore(securityStatus)
  IN /\ result.score = Points(securityStatus.httpsEnabled, 25)
                       + Points(securityStatus.sessionValid, 25)
                       + Points(securityStatus.networkOnline, 15)
                       + Points(securityStatus.securityHeaders, 20)
                       + Points(~securityStatus.suspiciousActivity, 15)
     /\ result.score \in 0..100
     /\ result.level = "Excellent" <=> result.score >= 80
     /\ result.level = "Good" <=> result.score \in 60..79
     /\ result.level = "Fair" <=> result.score \in 40..59
     /\ result.level = "Poor" <=> result.score < 40

\* An expired session and suspicious activity on an https origin with the
\* headers present: 25 + 15 + 20 = 60 points, the lower end of Good.
C18_Witness ==
  /\ ~securityStatus.sessionValid
  /\ securityStatus.suspiciousActivity
  /\ securityStatus.securityHeaders
  /\ GetSecurityScore(securityStatus).score = 60

\* C19: after a failed verification the challenge form stays, with the
\* code cleared and the same challenge id, except when the provider reports
\* the challenge expired: then a new challenge is created and the old id is
\* dropped.
C19_FailedVerifyKeepsChallenge ==
  [][\A i \in 1..MaxInFlight, o \in {"reject", "expired"} :
       (/\ i <= Len(verifyCalls)
        /\ ~verifyCalls[i].stale
        /\ mfa.mounted
        /\ VerifyResponse(i, o))
         => /\ mfa'.mounted
            /\ mfa'.verificationCode = NoCode
            /\ o = "reject" => mfa'.currentChallenge = mfa.currentChallenge
            /\ o = "expired" =>
                 \/ mfa'.initPc # "idle"
                 \/ mfa'.currentChallenge \notin {0, mfa.currentChallenge}]_vars

\* C20: a subject has at most one unverified TOTP factor at any time, also
\* after repeated setup attempts, Back to Setup and failed unenroll calls.
C20_OneUnverifiedFactor ==
  \A u \in Subjects : factors[u].unverified <= 1

\* C21: when the provider rejects the credentials the sign-in form is shown
\* again, the attempt stays counted by the rate limiter, the password field
\* is cleared and the attempt records no authenticated subject or session.
C21_RejectClearsPassword ==
  [][(SignInPasswordResponse("reject") /\ LoginFormShown) =>
       /\ LoginFormShown'
       /\ ~isLoading'
       /\ Len(localStorage'.rate_limit_signin) > PriorAttempts
       /\ authData'.password = ""
       /\ authenticatedUser' = authenticatedUser
       /\ providerSession' = providerSession]_vars

\* C22: a failed enrollment in the mandatory setup step leaves the
\* orchestrator in that step, and no step leads from the setup step to
\* Granted unless a code verification has succeeded for the session.
C22_EnrollFailureDoesNotGrant ==
  [][/\ \A d \in 0..MaxUnverified :
          (SetupTOTPResponse("enrollError", d) /\ SetupShown) =>
            SetupShown' /\ ~Granted'
     /\ (SetupShown /\ Granted') => mfaVerified']_vars

\* C23: in the optional prompt, in the mandatory setup step and in the
\* challenge a back action is enabled, and a back action leads to the
\* sign-in form with the authenticated subject cleared.
C23_BackEnabledEverywhere ==
  /\ []((OptionalShown \/ SetupShown \/ VerifyStepShown \/ MfaViewShown)
          => ENABLED (MfaBack \/ HandleBackToLogin))
  /\ [][(MfaBack \/ HandleBackToLogin) =>
          LoginFormShown' /\ authenticatedUser' = None]_vars

\* C24: a session is instantiated only on the step that reaches the granted
\* application page, with sessionStart = lastActivity = now; no other step
\* creates a session or gives the session a new sessionStart.
C24_SessionOnlyAtGranted ==
  [][(/\ sessionData' # NoSession
      /\ \/ sessionData = NoSession
         \/ sessionData'.sessionStart # sessionData.sessionStart)
       => /\ page = "auth"
          /\ page' = "app"
          /\ sessionData'.sessionStart = now'
          /\ sessionData'.lastActivity = now']_vars

\* C25: a step that ends the session (sign-out with the hook's cleanup,
\* invalidation, clearing) leaves the periodic check disarmed and no
\* listener set of setupActivityListeners attached, and the document never
\* carries more than one set.
C25_CleanupDetachesListeners ==
  [][/\ (sessionData # NoSession /\ sessionData' = NoSession)
          => ~checkInterval' /\ document'.listeners = 0
     /\ document'.listeners <= 1]_vars

\* C26: when a session is evaluated with both the idle threshold and the
\* absolute threshold crossed, the reason recorded for the expiry is the
\* maximum-duration one.
C26_AbsoluteReasonWins ==
  (/\ sessionData # NoSession
   /\ IdleTimedOut(sessionData, now)
   /\ DurationExceeded(sessionData, now))
    => IsSessionValid(Manager, now).reason = "MAX_DURATION"

\* C27: a validity check is a pure read: the steps that only call
\* getSessionInfo, and isSessionValid through it (the hook's poll, the
\* hook's render, SecurityMonitor.checkStatus), leave sessionData, the
\* armed timer and the stored data as they were.
C27_ValidityCheckIsPure ==
  [][(SessionCheckInterval \/ HookRender \/ CheckStatus)
       => /\ sessionData' = sessionData
          /\ checkInterval' = checkInterval
          /\ localStorage' = localStorage]_vars

\* C28: lastActivity of a session never decreases; an activity signal and a
\* change to visible set it to the current time; and updateActivity called
\* twice in succession leaves what one call at the later instant leaves.
C28_LastActivityNeverDecreases ==
  /\ [][/\ (sessionData # NoSession /\ sessionData' # NoSession)
             => sessionData'.lastActivity >= sessionData.lastActivity
        /\ (/\ sessionData # NoSession
            /\ \/ ActivitySignal
               \/ (VisibilityChange /\ document.hidden
                   /\ document.listeners > 0))
             => sessionData'.lastActivity = now']_vars
  /\ [](\A t \in {sessionData.lastActivity, now} :
          UpdateActivityOf(UpdateActivityOf(Manager, t), now)
            = UpdateActivityOf(Manager, now))

\* A session whose last activity is a listener's update made after its start.
C28_Witness ==
  /\ sessionData # NoSession
  /\ document.listeners > 0
  /\ sessionData.lastActivity = now
  /\ sessionData.lastActivity > sessionData.sessionStart

\* C29: an interaction signal changes lastActivity only while the page is
\* visible; a change to hidden leaves lastActivity as it was, and a change
\* from hidden to visible sets it to the current time.
C29_ActivityOnlyWhileVisible ==
  [][/\ (ActivitySignal /\ document.hidden)
          => sessionData' = sessionData
     /\ (VisibilityChange /\ ~document.hidden)
          => sessionData' = sessionData
     /\ (VisibilityChange /\ document.hidden /\ document.listeners > 0
         /\ sessionData # NoSession)
          => sessionData'.lastActivity = now']_vars

\* C30: without a session (after invalidation or clearing) isSessionValid
\* and getSessionInfo report an invalid session, and the only step that
\* makes a session exist again is initializeSession in the
\* onAuthStateChange callback, with sessionStart at the current time;
\* activity signals, visibility changes and getSessionInfo calls do not.
C30_InvalidatedStaysInvalid ==
  /\ [](sessionData = NoSession
          => /\ ~IsSessionValid(Manager, now).result
             /\ ~GetSessionInfo(Manager, now).isValid)
  /\ [][(sessionData = NoSession /\ sessionData' # NoSession)
          => /\ \E e \in {"SIGNED_IN", "TOKEN_REFRESHED"} :
                  OnAuthStateChange(e)
             /\ sessionData'.sessionStart = now']_vars
  /\ [][(/\ sessionData = NoSession
         /\ \/ ActivitySignal
            \/ VisibilityChange
            \/ SessionCheckInterval
            \/ HookRender)
          => sessionData' = NoSession]_vars

\* The interval has invalidated the session of a signed-in subject and the
\* document still carries the listeners that call updateActivity.
C30_Witness ==
  /\ sessionData = NoSession
  /\ audit.events > 0
  /\ page = "app"
  /\ document.listeners > 0

\* The challenge ids in use under the live provider session: the one the
\* mounted form holds and the ones of the verify calls in flight.
OutstandingChallenges ==
  {id \in ChallengeIds :
     \/ mfa.mounted /\ mfa.currentChallenge = id
     \/ \E i \in 1..Len(verifyCalls) :
          verifyCalls[i].challengeId = id /\ ~verifyCalls[i].orphan}

\* C31: while a challenge form is mounted at most one challenge id is
\* outstanding, the form holds none while it initialises, and a verify
\* call is submitted with the challenge id the form holds.
C31_OneOutstandingChallenge ==
  /\ []((page = "auth" /\ mfa.mounted)
         => /\ Cardinality(OutstandingChallenges) <= 1
            /\ mfa.initPc # "idle" => mfa.currentChallenge = 0)
  /\ [][VerifyTOTP =>
         verifyCalls'[Len(verifyCalls')].challengeId
           = mfa.currentChallenge]_vars

\* C32: when the verification of the setup code fails (the challenge or
\* the code is refused) the setup step stays shown, no factor is deleted,
\* and the form keeps the enrolled factor with "Verify & Enable" enabled
\* for a six-digit code.
C32_FailedSetupVerifyAllowsRetry ==
  [][\A o \in {"challengeError", "reject"} :
       (/\ SetupVerifyResponse(o)
        /\ SetupControlsShown
        /\ setup.step = "verify"
        /\ setup.activeMethod = "totp")
         => /\ SetupControlsShown'
            /\ factors' = factors
            /\ setup'.step = "verify"
            /\ setup'.currentFactor
            /\ ~setup'.loading
            /\ setup'.pc = "idle"]_vars

\* The provider has refused a setup code: a challenge was issued for the
\* unverified factor, and the form is back at rest on its verify step.
C32_Witness ==
  /\ SetupControlsShown
  /\ setup.step = "verify"
  /\ setup.currentFactor
  /\ setup.pc = "idle"
  /\ ~setup.loading
  /\ setup.verificationCode = BadCode
  /\ issued > 0
  /\ ~factors[Subject].verified
  /\ factors[Subject].unverified > 0

\* The sign-in attempts checkRateLimit has allowed within the window that
\* ends now: the stored ones and the ones allowed without a record.
AllowedInWindow ==
  Len(ValidAttempts(localStorage.rate_limit_signin, now, WINDOW_MS))
    + Len(ValidAttempts(unrecorded, now, WINDOW_MS))

\* What checkRateLimit("signin", 5, 300000) returns in the current state.
SignInRateLimit ==
  CheckRateLimit(localStorage.rate_limit_signin, now, SIGNIN_LIMIT,
                 WINDOW_MS, storage)

\* C33 as stated: at most 5 of the checkRateLimit("signin") calls made
\* within a span shorter than the window return true, and each call that
\* returns true stores one more attempt under its key.
C33_AtMostLimitAllowed ==
  /\ [](AllowedInWindow <= SIGNIN_LIMIT)
  /\ [][(HandleSignIn /\ SignInRateLimit.allowed)
          => localStorage'.rate_limit_signin
               = Append(ValidAttempts(localStorage.rate_limit_signin, now,
                                      WINDOW_MS), now)]_vars

\* C33: with a working localStorage, at most 5 attempts are stored for the
\* window, a call returns true exactly when fewer than 5 are, and a call
\* that returns true stores one more attempt under its key and changes no
\* other key; only calls caught by a failing storage add to the allowed
\* calls without a record.
C33_AtMostLimitRecorded ==
  /\ [](Len(ValidAttempts(localStorage.rate_limit_signin, now, WINDOW_MS))
          <= SIGNIN_LIMIT)
  /\ [][(HandleSignIn /\ storage = "ok")
          => LET valid == ValidAttempts(localStorage.rate_limit_signin, now,
                                        WINDOW_MS) IN
             /\ SignInRateLimit.allowed <=> Len(valid) < SIGNIN_LIMIT
             /\ localStorage' =
                  IF SignInRateLimit.allowed
                    THEN [localStorage EXCEPT
                            !.rate_limit_signin = Append(valid, now)]
                    ELSE localStorage
             /\ Len(unrecorded') <= Len(unrecorded)]_vars

\* The fifth attempt of the window has just been allowed and stored, after
\* the clock has moved.
C33_Witness ==
  /\ storage = "ok"
  /\ now > 0
  /\ signIn.pc = "password"
  /\ Len(localStorage.rate_limit_signin) = SIGNIN_LIMIT
  /\ localStorage.rate_limit_signin[SIGNIN_LIMIT] = now

\* C34: the periodic validity check of SessionManager is armed exactly
\* when session data exists.
C34_CheckArmedIffSession == checkInterval <=> sessionData # NoSession

\* C35: ProtectedRoute does not render its protected children (the
\* /mfa-setup page apart) while the user is authenticated, the mfa_enabled
\* preference is set and the subject has no verified factor.
C35_NoChildrenWithoutFactor ==
  ~(/\ RouteView(route) = "children"
    /\ providerSession # None
    /\ IsTrue(localStorage.mfa_enabled)
    /\ ~factors[Subject].verified)

\* C36: a checkRateLimit("signin") call that returns false stores nothing,
\* and once the window has elapsed since the oldest stored attempt the next
\* call returns true, whatever was rejected in between.
C36_NoPermanentLockout ==
  /\ [][(HandleSignIn /\ ~SignInRateLimit.allowed)
          => localStorage' = localStorage]_vars
  /\ []((/\ localStorage.rate_limit_signin # <<>>
         /\ now - localStorage.rate_limit_signin[1] >= WINDOW_MS)
          => SignInRateLimit.allowed)

\* The limit was reached with the attempts stored, a window has passed
\* since the oldest of them, and the sign-in form can be submitted.
C36_Witness ==
  /\ Len(localStorage.rate_limit_signin) = SIGNIN_LIMIT
  /\ now - localStorage.rate_limit_signin[1] >= WINDOW_MS
  /\ now - localStorage.rate_limit_signin[SIGNIN_LIMIT] < WINDOW_MS
  /\ storage = "ok"
  /\ ENABLED HandleSignIn

\* C37: setupTOTP never unenrolls a factor whose status is verified, and
\* when the subject already has a verified TOTP factor it deletes no factor
\* and creates none before it reports completion.
C37_SetupTOTPKeepsVerified ==
  [][\A o \in {"noSession", "listError", "alreadyVerified", "enrolled",
               "enrollError"}, d \in 0..MaxUnverified :
       SetupTOTPResponse(o, d) =>
         /\ \A u \in Subjects : factors'[u].verified = factors[u].verified
         /\ factors[setup.user].verified => factors' = factors]_vars

\* setupTOTP is in flight for a signed-in subject who has a verified TOTP
\* factor and an unverified one; its listFactors is about to answer.
C37_Witness ==
  /\ setup.pc = "setupTOTP"
  /\ providerSession = setup.user
  /\ factors[setup.user].verified
  /\ factors[setup.user].unverified > 0
  /\ ENABLED SetupTOTPResponse("alreadyVerified", 0)

\* C38: the periodic check of SessionManager never dispatches the
\* suspiciousActivity event: whenever its interval is armed, the session the
\* validity test leaves is gone or started no more than twelve hours ago,
\* the recent-request count is 0, detectSuspiciousActivity returns false,
\* and so no tick changes the security status.
C38_TickNeverSuspicious ==
  /\ [](checkInterval =>
          LET valid == IsSessionValid(Manager, now) IN
          /\ \/ ~valid.result
             \/ now - sessionData.sessionStart < LONG_SESSION
          /\ GetRecentActivityCount(LAST_MINUTE) = 0
          /\ ~SuspiciousAtTick)
  /\ [][SessionMonitorTick => UNCHANGED security]_vars

\* The interval is about to fire on a valid session that started exactly
\* eight hours ago, the oldest session a tick lets through.
C38_Witness ==
  /\ checkInterval
  /\ sessionData # NoSession
  /\ now - sessionData.sessionStart = MAX_DURATION
  /\ IsSessionValid(Manager, now).result
  /\ page = "app"
  /\ ENABLED SessionMonitorTick

\* The checkRateLimit("signin") call of the current state ends in its catch
\* block: getItem or JSON.parse throws, or setItem throws once the limit
\* test has let the attempt through.
SignInStorageFails ==
  \/ storage = "readThrows"
  \/ /\ storage = "writeThrows"
     /\ Len(ValidAttempts(localStorage.rate_limit_signin, now, WINDOW_MS))
          < SIGNIN_LIMIT

\* C39: when reading or writing the rate-limit storage fails, checkRateLimit
\* returns true, so the sign-in goes on to the provider, and the attempts
\* stored under the key are left as they were.
C39_StorageFailureAllows ==
  /\ [](SignInStorageFails =>
          /\ SignInRateLimit.allowed
          /\ SignInRateLimit.stored = localStorage.rate_limit_signin)
  /\ [][(HandleSignIn /\ SignInStorageFails) =>
          /\ localStorage' = localStorage
          /\ IsValidEmail(authData.email) => signIn'.pc = "password"]_vars

\* A sign-in has just been allowed by the catch block although the stored
\* attempts had reached the limit; they are all still stored.
C39_Witness ==
  /\ storage = "readThrows"
  /\ Len(ValidAttempts(localStorage.rate_limit_signin, now, WINDOW_MS))
       = SIGNIN_LIMIT
  /\ unrecorded # <<>>
  /\ unrecorded[Len(unrecorded)] = now
  /\ signIn.pc = "password"

====
